---- MODULE Spec2Model ----
(***************************************************************************)
(* A state-machine model of the Bayrol pool API core: the device registry  *)
(* (DeviceManager), the per-device MQTT link (BayrolMQTTManager), the      *)
(* asyncio event loop that runs the sensor-update tasks, the alarm         *)
(* evaluator (AlarmService), the webhook dispatcher with its circuit       *)
(* breaker (NotificationService), the live-subscriber fan-out and the      *)
(* Redis-backed alarm-history queue.                                       *)
(*                                                                         *)
(* Conventions.  A Python dict is a function whose DOMAIN is the set of    *)
(* keys present.  A decoded or raw value is a record, [k |-> "num", n, d]  *)
(* for the number n/d and [k |-> "str", s] for a string.  Time is an       *)
(* integer number of seconds of wall clock (datetime.utcnow()).              *)
(* A coroutine is a record with a program counter; it runs from one await  *)
(* to the next as one step of the event loop.  Consecutive awaits with no  *)
(* access to shared state between them are one suspension.                 *)
(***************************************************************************)
EXTENDS Integers, Sequences, FiniteSets, TLC

VARIABLES
    now,          \* datetime.utcnow(), in seconds
    devices,      \* DeviceManager.devices: device id -> device record
    wsConns,      \* DeviceManager._websocket_connections: device id -> list of sinks
    link,         \* per device id: the BayrolMQTTManager (thread, client, session)
    mqttPending,  \* per device id: the message _on_message is in the middle of handing over
    ready,        \* the event loop's FIFO of callbacks ready to run
    tasks,        \* the asyncio tasks created so far, in creation order
    arrivals,     \* the messages _on_message has accepted so far, in arrival order
    readings,     \* rows of the sensor_readings table, per device id
    loopBusy,     \* device id whose remove_device is blocking the event loop, or NoDev
    rules,        \* rows of the alarms table: rule id -> rule record
    breaker,      \* NotificationService.webhook_failures / webhook_disabled_until
    posts,        \* per URL, the POSTs made and their outcomes, in order
    histQueue,    \* Redis list queue:alarm_history, head = next to pop
    histStore,    \* rows of the alarm_history table (ids of the events persisted)
    flush,        \* the batch writer: its position, its batch and what it returned
    accepted,     \* ids of the history events enqueue has accepted
    trigLog,      \* triggered alarms so far: set of [rule, msg, t, at]
    calls,        \* the _send_webhook coroutines created so far
    api,          \* the test-alarm endpoint's request in progress
    settings,     \* app.config.settings: the global and the email-relay webhook
    sinks,        \* per WebSocket: its handler's state and the device it watches
    bcastLog,     \* last finished broadcast pass: [kind, dev, tried, failed]
    published,    \* what the links' clients have published to the broker, in order
    reply,        \* the last call of the API or the registry, and what it returned
    handles,      \* the values readers of the registry hold
    issued,       \* per device id: what the link's last _on_connect got and sent
    logged        \* the warnings and errors _on_message has logged

vars == <<now, devices, wsConns, link, mqttPending, ready, tasks, arrivals, readings,
          loopBusy, rules, breaker, posts, histQueue, histStore, flush, accepted,
          trigLog, calls, api, settings, sinks, bcastLog, published, reply, handles,
          issued, logged>>

(***************************************************************************)
(* Bounds of the model.                                                    *)
(***************************************************************************)
MaxMsgs == 2       \* messages the broker delivers in one run
MaxTime == 1       \* the clock ticks at most MaxTime times
TickStep == 30     \* seconds the clock advances in one tick
MaxPosts == 6      \* POSTs the test endpoint starts in one run
MaxFanoutMsgs == 1 \* messages delivered while WebSockets come and go
MaxAlarmMsgs == 1  \* messages delivered while alarms are dispatched and flushed
MaxCooldownMsgs == 2  \* messages delivered while the cooldown is watched
MaxCodecMsgs == 1  \* messages delivered while the decoder is watched
MaxEvalMsgs == 1   \* messages delivered while the evaluator is watched
MaxWrites == 2     \* select writes published in one run
MaxSelectMsgs == 1 \* messages delivered while select writes are made
MaxDecodeMsgs == 1 \* messages delivered while the decoder's failures are watched
MaxHandles == 1    \* values readers of the registry hold in one run
MaxRegistryMsgs == 1  \* messages delivered while the registry is read
MaxQueued == 102   \* history events on the queue when the batch writer is watched
MaxStoredRules == 1 \* alarm rules created through the API in one run
MaxEntries == 2     \* entries of a link to Connected that are counted
MaxDropMsgs == 1    \* messages accepted while others are dropped
MaxStaleMsgs == 2   \* messages delivered while the evaluated value is watched
MaxGateMsgs == 2    \* messages delivered while webhook deliveries are pending
MaxLabelMsgs == 1   \* messages delivered while non-numeric readings are watched
MaxRemovalMsgs == 1 \* messages delivered while the device is removed

NoTime == -1       \* a timestamp that is None
NoDev == "NoDev"
NoReply == [op |-> "none"]

(***************************************************************************)
(* dict helpers                                                            *)
(***************************************************************************)
Put(f, k, v) == [x \in DOMAIN f \cup {k} |-> IF x = k THEN v ELSE f[x]]

Del(f, k) == [x \in DOMAIN f \ {k} |-> f[x]]

EmptyDict == <<>>

\* list.remove(x): removes the first occurrence
RECURSIVE ListRemove(_, _)
ListRemove(l, x) ==
    IF l = <<>> THEN <<>>
    ELSE IF Head(l) = x THEN Tail(l)
    ELSE <<Head(l)>> \o ListRemove(Tail(l), x)

Range(l) == {l[i] : i \in 1..Len(l)}

Num(n, d) == [k |-> "num", n |-> n, d |-> d]

Str(s) == [k |-> "str", s |-> s]

\* JSON null
None == [k |-> "none"]

\* an integer above the largest float (1 followed by 309 zeros, say), which
\* json.loads keeps as an int
Huge == [k |-> "huge"]

\* an exception that leaves a function instead of a value
Raised(e) == [k |-> "raise", e |-> e]

Raises(x) == "k" \in DOMAIN x /\ x.k = "raise"

(***************************************************************************)
(* Device families and their schemas (app/core/const.py).  The model keeps *)
(* five readable sensors of the Automatic families, one for each kind of  *)
(* coefficient: pH (10, no unit), Redox (1, mV), Battery Voltage (100, V), *)
(* SW Date (-1) and the hourly counter (none), and three writable ones:    *)
(* pH Target (10), Start Delay (1) and pH Production Rate (none).  An      *)
(* optional field is a sequence: <<>> for None, <<x>> for x.               *)
(***************************************************************************)
SensorConfig(name, coefficient, unit, entity_type) ==
    [name |-> name, coefficient |-> coefficient,
     unit_of_measurement |-> unit, entity_type |-> entity_type]

\* a writable entry: entity_type "select", with its declared options
SelectConfig(name, coefficient, unit, options) ==
    [name |-> name, coefficient |-> coefficient,
     unit_of_measurement |-> unit, entity_type |-> "select", options |-> options]

SENSOR_TYPES_AUTOMATIC ==
    [s \in {"4.182", "4.82", "4.68", "4.69", "4.107", "4.2", "4.37", "5.3"} |->
        CASE s = "4.182" -> SensorConfig("pH", <<10>>, <<>>, "sensor")
          [] s = "4.82" -> SensorConfig("Redox", <<1>>, <<"mV">>, "sensor")
          [] s = "4.68" -> SensorConfig("SW Date", <<-1>>, <<>>, "sensor")
          [] s = "4.69" -> SensorConfig("Hourly Counter / Reset every 24h", <<>>, <<>>,
                                        "sensor")
          [] s = "4.107" -> SensorConfig("Battery Voltage", <<100>>, <<"V">>, "sensor")
          [] s = "4.2" -> SelectConfig("pH Target", <<10>>, <<>>,
                                       {Num(n, 10) : n \in 62..82})
          [] s = "4.37" -> SelectConfig("Start Delay", <<1>>, <<"min">>,
                                        {Num(n, 1) : n \in 1..60})
          [] s = "5.3" -> SelectConfig("pH Production Rate", <<>>, <<>>,
                                       {Str("0.25x"), Str("0.5x"), Str("0.75x"),
                                        Str("1.0x"), Str("1.25x"), Str("1.5x"),
                                        Str("2x"), Str("3x"), Str("5x"), Str("10x")})]

get_sensor_types_for_device(device_type) ==
    IF device_type \in {"Automatic SALT", "Automatic Cl-pH"}
    THEN SENSOR_TYPES_AUTOMATIC
    ELSE EmptyDict

(***************************************************************************)
(* SensorValueCodec (app/core/sensor_handler.py)                           *)
(***************************************************************************)
StringCodes ==
    [c \in {"19.18", "19.19", "19.195", "19.115", "19.106", "19.177", "19.176",
            "19.257", "19.258", "19.259"} |->
        CASE c = "19.18" -> "On"
          [] c = "19.19" -> "Off"
          [] c = "19.195" -> "Auto"
          [] c = "19.115" -> "Auto Plus"
          [] c = "19.106" -> "Constant production"
          [] c = "19.177" -> "On"
          [] c = "19.176" -> "Off"
          [] c = "19.257" -> "Missing"
          [] c = "19.258" -> "Not Empty"
          [] c = "19.259" -> "Empty"]

NumericCodes ==
    [c \in {7001, 7002, 7521, 7522, 7523, 7524, 7525, 7526, 7527} |->
        CASE c = 7001 -> "On"
          [] c = 7002 -> "Off"
          [] c = 7521 -> "Full"
          [] c = 7522 -> "Low"
          [] c = 7523 -> "Empty"
          [] c = 7524 -> "Ok"
          [] c = 7525 -> "Info"
          [] c = 7526 -> "Warning"
          [] c = 7527 -> "Alarm"]

\* the strings float() parses, with the number n/d each denotes as <<n, d>>
NumericStrings ==
    [s \in {"72", "650", "7001", "7.2", "7.25", "9.9", "5", "61"} |->
        CASE s = "72" -> <<72, 1>> [] s = "650" -> <<650, 1>> [] s = "7001" -> <<7001, 1>>
          [] s = "7.2" -> <<72, 10>> [] s = "7.25" -> <<725, 100>>
          [] s = "9.9" -> <<99, 10>> [] s = "5" -> <<5, 1>> [] s = "61" -> <<61, 1>>]

\* the last k decimal digits of m
RECURSIVE Digits(_, _)
Digits(m, k) == IF k = 0 THEN "" ELSE Digits(m \div 10, k - 1) \o ToString(m % 10)

\* the number of decimal places of a denominator 10, 100 or 1000
Places(d) == CASE d = 10 -> 1 [] d = 100 -> 2 [] d = 1000 -> 3 [] OTHER -> 0

\* str(value): an integer prints as its digits, a float n/d with a last digit
\* other than 0 as its integer part, a point and its decimal places
PyStr(value) ==
    IF value.k = "str" THEN value.s
    ELSE IF value.k = "none" THEN "None"
    ELSE IF value.k = "num" /\ value.d = 1 THEN ToString(value.n)
    ELSE IF value.k = "num" /\ Places(value.d) > 0 /\ value.n >= 0
    THEN ToString(value.n \div value.d) \o "." \o Digits(value.n % value.d, Places(value.d))
    ELSE "?"

\* float(value) raises OverflowError, which is not among the exceptions
\* handle_sensor_value catches: the integer is too large for a float
FloatOverflows(value) == value.k = "huge"

\* float(value) succeeds
CanFloat(value) ==
    \/ value.k = "num"
    \/ value.k = "str" /\ value.s \in DOMAIN NumericStrings

PyFloat(value) ==
    IF value.k = "num" THEN value
    ELSE Num(NumericStrings[value.s][1], NumericStrings[value.s][2])

\* a decoder that would scale by a declared coefficient before it looks at
\* the numeric code table
handle_sensor_value_scale_first(sensor_config, value) ==
    IF PyStr(value) \in DOMAIN StringCodes THEN Str(StringCodes[PyStr(value)])
    ELSE LET coefficient == sensor_config.coefficient IN
         IF coefficient # <<>> /\ coefficient # <<-1>> /\ CanFloat(value)
         THEN Num(PyFloat(value).n, PyFloat(value).d * coefficient[1])
         ELSE IF value.k = "num" /\ value.d = 1 /\ value.n \in DOMAIN NumericCodes
         THEN Str(NumericCodes[value.n])
         ELSE IF coefficient = <<-1>> THEN Str(PyStr(value))
         ELSE value

\* a decoder that would multiply by the coefficient, as the encoder does, and
\* pass the raw value through for coefficient -1
handle_sensor_value_as_encoder(sensor_config, value) ==
    IF PyStr(value) \in DOMAIN StringCodes THEN Str(StringCodes[PyStr(value)])
    ELSE IF value.k = "num" /\ value.d = 1 /\ value.n \in DOMAIN NumericCodes
    THEN Str(NumericCodes[value.n])
    ELSE LET coefficient == sensor_config.coefficient IN
         IF coefficient # <<>> /\ coefficient # <<-1>> /\ CanFloat(value)
         THEN Num(PyFloat(value).n * coefficient[1], PyFloat(value).d)
         ELSE value

handle_sensor_value(sensor_config, value) ==
    IF PyStr(value) \in DOMAIN StringCodes THEN Str(StringCodes[PyStr(value)])
    ELSE IF value.k = "num" /\ value.d = 1 /\ value.n \in DOMAIN NumericCodes
    THEN Str(NumericCodes[value.n])
    ELSE LET coefficient == sensor_config.coefficient IN
         IF coefficient # <<>> /\ coefficient # <<-1>>
         THEN IF FloatOverflows(value) THEN Raised("OverflowError")
              ELSE IF CanFloat(value) /\ coefficient[1] # 0
              THEN Num(PyFloat(value).n, PyFloat(value).d * coefficient[1])
              ELSE value
         ELSE IF coefficient = <<-1>> THEN Str(PyStr(value))
         ELSE value

Labels == {"On", "Off", "Auto", "Auto Plus", "Constant production", "Missing",
           "Not Empty", "Empty", "Full", "Low", "Ok", "Info", "Warning", "Alarm"}

IsLabel(v) == v.k = "str" /\ v.s \in Labels

\* The formatted string f"{value} {unit}" is kept as the pair <<value, unit>>,
\* str(value) as <<value>>.  An exception of handle_sensor_value passes through.
format_sensor_value(sensor_config, value) ==
    LET processed_value == handle_sensor_value(sensor_config, value)
        unit == sensor_config.unit_of_measurement
    IN IF Raises(processed_value) THEN processed_value
       ELSE [raw_value |-> value,
             value |-> processed_value,
             unit |-> unit,
             formatted_value |-> IF unit # <<>> /\ ~IsLabel(processed_value)
                                 THEN <<processed_value, unit[1]>>
                                 ELSE <<processed_value>>]

\* the inverse enumeration tables (app/core/const.py)
VALUE_TO_MQTT_AUTOMATIC ==
    [v \in {"0.25x", "0.5x", "0.75x", "1.0x", "1.25x", "1.5x", "2x", "3x", "5x", "10x",
            "On", "Off", "Constant production", "Auto Plus", "Auto", "Full", "Empty"} |->
        CASE v = "0.25x" -> "19.3" [] v = "0.5x" -> "19.4" [] v = "0.75x" -> "19.5"
          [] v = "1.0x" -> "19.6" [] v = "1.25x" -> "19.7" [] v = "1.5x" -> "19.8"
          [] v = "2x" -> "19.9" [] v = "3x" -> "19.10" [] v = "5x" -> "19.11"
          [] v = "10x" -> "19.12" [] v = "On" -> "19.17" [] v = "Off" -> "19.18"
          [] v = "Constant production" -> "19.106" [] v = "Auto Plus" -> "19.115"
          [] v = "Auto" -> "19.195" [] v = "Full" -> "19.258" [] v = "Empty" -> "19.259"]

VALUE_TO_MQTT_PM5 ==
    [v \in {"On", "Off", "Auto"} |->
        CASE v = "On" -> "7408" [] v = "Off" -> "7407" [] v = "Auto" -> "7427"]

\* dict.get(key): <<>> for None
Get(f, k) == IF k \in DOMAIN f THEN <<f[k]>> ELSE <<>>

\* int(x) of a float x = n/d: truncation towards zero
PyInt(x) == IF x.n >= 0 THEN x.n \div x.d ELSE -((-x.n) \div x.d)

\* get_mqtt_value_for_select: the three known families return what their
\* table holds for the display value, None when it holds nothing; any other
\* family multiplies by the coefficient of the entry, when it has one
get_mqtt_value_for_select(device_type, sensor_id, display_value) ==
    IF device_type \in {"Automatic SALT", "Automatic Cl-pH"}
    THEN Get(VALUE_TO_MQTT_AUTOMATIC, display_value.s)
    ELSE IF device_type = "PM5 Chlorine"
    THEN Get(VALUE_TO_MQTT_PM5, display_value.s)
    ELSE LET sensor_config == Get(get_sensor_types_for_device(device_type), sensor_id)
         IN IF /\ sensor_config # <<>>
               /\ sensor_config[1].coefficient \notin {<<>>, <<0>>, <<-1>>}
               /\ CanFloat(display_value)
            THEN LET x == PyFloat(display_value)
                 IN <<ToString(PyInt(Num(x.n * sensor_config[1].coefficient[1], x.d)))>>
            ELSE <<display_value.s>>

IsNumeric(v) == v.k = "num"

\* comparisons of numbers n/d with d > 0
Lt(a, b) == a.n * b.d < b.n * a.d

Gt(a, b) == Lt(b, a)

NumEq(a, b) == a.n * b.d = b.n * a.d

(***************************************************************************)
(* AlarmEngine: AlarmService.check_alarm_conditions                        *)
(***************************************************************************)
\* The rows the query of get_active_alarms_for_device returns, in id order.
\* Nothing fills the Redis alarm cache (the only caller passes a sensor type),
\* so every evaluation reads the table.
RECURSIVE SortedSeq(_)
SortedSeq(S) ==
    IF S = {} THEN <<>>
    ELSE LET m == CHOOSE x \in S : \A y \in S : x <= y
         IN <<m>> \o SortedSeq(S \ {m})

get_active_alarms_for_device(device_id, sensor_type) ==
    SortedSeq({r \in DOMAIN rules :
                  /\ rules[r].device_id = device_id
                  /\ rules[r].enabled
                  /\ rules[r].sensor_type = sensor_type})

\* a cooldown that would still hold at the instant it ends
InCooldownInclusive(alarm, t) ==
    /\ alarm.last_triggered # NoTime
    /\ t <= alarm.last_triggered + alarm.cooldown_minutes * 60

InCooldown(alarm, t) ==
    /\ alarm.last_triggered # NoTime
    /\ t < alarm.last_triggered + alarm.cooldown_minutes * 60

\* an evaluator whose comparisons would include the bounds
ConditionMetInclusive(alarm, value) ==
    CASE alarm.condition = "above" /\ alarm.threshold_max # <<>> ->
            ~Lt(value, alarm.threshold_max[1])
      [] alarm.condition = "below" /\ alarm.threshold_min # <<>> ->
            ~Gt(value, alarm.threshold_min[1])
      [] alarm.condition = "equals" /\ alarm.threshold_min # <<>> ->
            NumEq(value, alarm.threshold_min[1])
      [] alarm.condition = "out_of_range"
           /\ alarm.threshold_min # <<>> /\ alarm.threshold_max # <<>> ->
            ~Gt(value, alarm.threshold_min[1]) \/ ~Lt(value, alarm.threshold_max[1])
      [] OTHER -> FALSE

ConditionMet(alarm, value) ==
    CASE alarm.condition = "above" /\ alarm.threshold_max # <<>> ->
            Gt(value, alarm.threshold_max[1])
      [] alarm.condition = "below" /\ alarm.threshold_min # <<>> ->
            Lt(value, alarm.threshold_min[1])
      [] alarm.condition = "equals" /\ alarm.threshold_min # <<>> ->
            NumEq(value, alarm.threshold_min[1])
      [] alarm.condition = "out_of_range"
           /\ alarm.threshold_min # <<>> /\ alarm.threshold_max # <<>> ->
            Lt(value, alarm.threshold_min[1]) \/ Gt(value, alarm.threshold_max[1])
      [] OTHER -> FALSE

\* the ids of the rules that trigger, in the order evaluated
check_alarm_conditions(device_id, sensor_type, value) ==
    SelectSeq(get_active_alarms_for_device(device_id, sensor_type),
              LAMBDA r : ~InCooldown(rules[r], now) /\ ConditionMet(rules[r], value))

\* float(value) if isinstance(value, (int, float)) else 0.0
AlarmValue(value) == IF IsNumeric(value) THEN value ELSE Num(0, 1)

histVars == <<histQueue, histStore, flush, accepted>>

notifVars == <<breaker, posts, calls, api, settings>>

callVars == <<published, reply, handles, issued, logged>>

\* the event loop is not inside a blocking call
LoopFree == loopBusy = NoDev

(***************************************************************************)
(* NotificationDispatcher: NotificationService                             *)
(***************************************************************************)
MAX_FAILURES == 5

RESET_TIMEOUT == 300

\* _is_webhook_available: the answer and the breaker it leaves
IsWebhookAvailable(b, url) ==
    IF url \in DOMAIN b.webhook_disabled_until
    THEN IF now < b.webhook_disabled_until[url]
         THEN [ok |-> FALSE, b |-> b]
         ELSE [ok |-> TRUE,
               b |-> [webhook_disabled_until |-> Del(b.webhook_disabled_until, url),
                      webhook_failures |-> Put(b.webhook_failures, url, 0)]]
    ELSE [ok |-> TRUE, b |-> b]

\* datetime.replace(second=sec) raises ValueError unless sec is in 0..59
ReplaceSecondRaises(sec) == sec \notin 0..59

\* datetime.utcnow().replace(second=datetime.utcnow().second + RESET_TIMEOUT)
DisabledUntil(t) == (t - (t % 60)) + ((t % 60) + RESET_TIMEOUT)

\* _record_failure: the breaker it leaves and whether it raised.  The count
\* is stored before the disabled-until time is computed.
RecordFailure(b, url) ==
    LET n == (IF url \in DOMAIN b.webhook_failures THEN b.webhook_failures[url] ELSE 0) + 1
        counted == [b EXCEPT !.webhook_failures = Put(b.webhook_failures, url, n)]
    IN IF n >= MAX_FAILURES
       THEN IF ReplaceSecondRaises((now % 60) + RESET_TIMEOUT)
            THEN [raised |-> TRUE, b |-> counted]
            ELSE [raised |-> FALSE,
                  b |-> [counted EXCEPT !.webhook_disabled_until =
                            Put(b.webhook_disabled_until, url, DisabledUntil(now))]]
       ELSE [raised |-> FALSE, b |-> counted]

\* a success that would take one failure off the count and leave the rest
RecordSuccessDecrement(b, url) ==
    [webhook_failures |->
        Put(b.webhook_failures, url,
            IF url \in DOMAIN b.webhook_failures /\ b.webhook_failures[url] > 0
            THEN b.webhook_failures[url] - 1 ELSE 0),
     webhook_disabled_until |-> Del(b.webhook_disabled_until, url)]

\* _record_success
RecordSuccess(b, url) ==
    [webhook_failures |-> Put(b.webhook_failures, url, 0),
     webhook_disabled_until |-> Del(b.webhook_disabled_until, url)]

\* _send_webhook from the response on: the result and the breaker it leaves.
\* outcome is what the POST met: "2xx", "non2xx", "timeout" or "exception".
\* A ValueError of _record_failure in the try block is caught by the last
\* handler, which records the failure again; raised in a handler it leaves
\* the coroutine.
SendWebhookResult(b, url, outcome) ==
    IF outcome = "2xx"
    THEN [result |-> "success", b |-> RecordSuccess(b, url)]
    ELSE LET first == RecordFailure(b, url) IN
         IF ~first.raised THEN [result |-> "failure", b |-> first.b]
         ELSE IF outcome = "non2xx"
              THEN LET second == RecordFailure(first.b, url)
                   IN [result |-> IF second.raised THEN "raised" ELSE "failure",
                       b |-> second.b]
              ELSE [result |-> "raised", b |-> first.b]

\* a - b and a / b (b not 0) for numbers n/d with d > 0
Sub(a, b) == Num(a.n * b.d - b.n * a.d, a.d * b.d)

Quot(a, b) ==
    IF b.n > 0 THEN Num(a.n * b.d, a.d * b.n) ELSE Num(-(a.n * b.d), a.d * (-b.n))

\* "alarm.threshold_max" used as a condition: neither None nor 0.0
Truthy(threshold) == threshold # <<>> /\ threshold[1].n # 0

\* lines 250-253: deviation > 0.2 is critical, > 0.1 warning
Grade(deviation) ==
    IF Gt(deviation, Num(2, 10)) THEN "critical"
    ELSE IF Gt(deviation, Num(1, 10)) THEN "warning"
    ELSE "info"

\* the exceptions _determine_severity can leave with
Faults == {"ZeroDivisionError", "TypeError"}

\* _determine_severity: the severity, or the exception raised.  Arithmetic on
\* a value that is a label raises TypeError, a division by a range of size 0
\* ZeroDivisionError.
DetermineSeverity(alarm, value) ==
    IF alarm.condition = "above" /\ Truthy(alarm.threshold_max)
    THEN IF ~IsNumeric(value) THEN "TypeError"
         ELSE Grade(Quot(Sub(value, alarm.threshold_max[1]), alarm.threshold_max[1]))
    ELSE IF alarm.condition = "below" /\ Truthy(alarm.threshold_min)
    THEN IF ~IsNumeric(value) THEN "TypeError"
         ELSE Grade(Quot(Sub(alarm.threshold_min[1], value), alarm.threshold_min[1]))
    ELSE IF alarm.condition = "out_of_range"
            /\ Truthy(alarm.threshold_min) /\ Truthy(alarm.threshold_max)
    THEN IF ~IsNumeric(value) THEN "TypeError"
         ELSE LET range_size == Sub(alarm.threshold_max[1], alarm.threshold_min[1])
                  distance == IF Lt(value, alarm.threshold_min[1])
                              THEN Sub(alarm.threshold_min[1], value)
                              ELSE Sub(value, alarm.threshold_max[1])
              IN IF range_size.n = 0 THEN "ZeroDivisionError"
                 ELSE Grade(Quot(distance, range_size))
    ELSE "info"

\* the targets send_alarm_notification considers, in its order
ConfiguredTargets(alarm) ==
    (IF alarm.webhook_url # <<>>
     THEN <<[url |-> alarm.webhook_url[1], type |-> "alarm_webhook"]>> ELSE <<>>)
    \o (IF settings.ALARM_WEBHOOK_URL # <<>>
        THEN <<[url |-> settings.ALARM_WEBHOOK_URL[1], type |-> "global_webhook"]>>
        ELSE <<>>)
    \o (IF alarm.email /\ settings.EMAIL_WEBHOOK_URL # <<>>
        THEN <<[url |-> settings.EMAIL_WEBHOOK_URL[1], type |-> "email"]>>
        ELSE <<>>)

\* send_alarm_notification, lines 74-123: each configured target is asked of
\* the breaker in turn; the available ones get a _send_webhook coroutine
RECURSIVE SelectTargets(_, _)
SelectTargets(b, targets) ==
    IF targets = <<>> THEN [b |-> b, tasks |-> <<>>]
    ELSE LET a == IsWebhookAvailable(b, Head(targets).url)
             rest == SelectTargets(a.b, Tail(targets))
         IN [b |-> rest.b,
             tasks |-> (IF a.ok THEN <<Head(targets)>> ELSE <<>>) \o rest.tasks]

\* the log of POSTs: per URL the sequence of "post" and outcome events
LogEvent(log, url, e) ==
    Put(log, url, Append(IF url \in DOMAIN log THEN log[url] ELSE <<>>,
                         [e |-> e, at |-> now]))

RECURSIVE LogPosts(_, _)
LogPosts(log, targets) ==
    IF targets = <<>> THEN log
    ELSE LogPosts(LogEvent(log, Head(targets).url, "post"), Tail(targets))

\* the _send_webhook coroutines of one dispatch; severity is the payload's
NewCalls(owner, targets, severity) ==
    [i \in 1..Len(targets) |->
        [owner |-> owner, url |-> targets[i].url, type |-> targets[i].type,
         severity |-> severity, state |-> "pending", result |-> ""]]

\* the notification types of a list of targets
Types(targets) == {targets[i].type : i \in 1..Len(targets)}

CallsOf(owner) == {c \in 1..Len(calls) : calls[c].owner = owner}

\* lines 130-138: the results the loop would store, one per gathered
\* coroutine under its notification type; an exception a coroutine left with
\* is stored as a failure
ResultsOf(owner) ==
    [ty \in {calls[c].type : c \in CallsOf(owner)} |->
        LET c == CHOOSE k \in CallsOf(owner) : calls[k].type = ty
        IN IF calls[c].result = "success" THEN "success" ELSE "failure"]

GatherDone(owner) == \A c \in CallsOf(owner) : calls[c].state = "done"

DropCalls(owner) == SelectSeq(calls, LAMBDA c : c.owner # owner)

\* a POST of _send_webhook ends: lines 159-199
WebhookResponse(c, outcome) ==
    /\ LoopFree
    /\ c \in 1..Len(calls)
    /\ calls[c].state = "pending"
    /\ LET r == SendWebhookResult(breaker, calls[c].url, outcome)
       IN /\ breaker' = r.b
          /\ calls' = [calls EXCEPT ![c].state = "done", ![c].result = r.result]
          /\ posts' = LogEvent(posts, calls[c].url,
                               IF outcome = "2xx" THEN "ok" ELSE "fail")
    /\ UNCHANGED <<now, devices, wsConns, link, mqttPending, ready, tasks, arrivals, readings,
                   loopBusy, rules, api, settings, callVars, histVars, trigLog, sinks, bcastLog>>

(***************************************************************************)
(* The event loop and the tasks it runs                                    *)
(***************************************************************************)
Entry(k, dev, sensor, raw, msg, t) ==
    [k |-> k, dev |-> dev, sensor |-> sensor, raw |-> raw, msg |-> msg, t |-> t]

\* a task running DeviceManager._handle_sensor_update(dev, sensor, raw)
NewTask(id, dev, sensor, raw, msg) ==
    [id |-> id, dev |-> dev, sensor |-> sensor, raw |-> raw, msg |-> msg,
     pc |-> "start", blocked |-> FALSE,
     val |-> raw,            \* formatted['value'], set by the first step, or the
                             \* exception that ended the task there
     at |-> NoTime,          \* the time the first step read
     evalAt |-> NoTime,      \* the time check_alarm_conditions read
     i |-> 0,                \* index of the sink being sent to
     ws |-> "",              \* that sink
     frozen |-> <<>>,        \* the list iterated, once its dict entry is deleted
     disconnected |-> <<>>,  \* send_websocket_alarm_notification's local list
     trig |-> <<>>,          \* triggered alarms still to process, head = current
     hist |-> <<>>,          \* the history_data being pushed
     tried |-> {}, failed |-> {},            \* sinks of the pass in progress
     severity |-> EmptyDict, \* per rule id dispatched, what _determine_severity gave
     triggered |-> {}, dispatched |-> {},    \* rule ids, per consumer that ran
     broadcast |-> {}, queued |-> {}]

Done(task) == [task EXCEPT !.pc = "done", !.blocked = FALSE]

Await(task, pc) == [task EXCEPT !.pc = pc, !.blocked = TRUE]

\* a queue that would run the newest callback first, which asyncio's is not
CallSoonLifo(q, e) == <<e>> \o q

\* loop.call_soon / call_soon_threadsafe: the callback joins the tail of the
\* loop's ready queue
CallSoon(q, e) == Append(q, e)

HeadIs(k) == LoopFree /\ ready # <<>> /\ Head(ready).k = k

\* an event loop that would run no step of a task while a webhook POST is
\* waiting for its response
RunsAfterDelivery(t, pc) ==
    /\ HeadIs("step") /\ Head(ready).t = t /\ tasks[t].pc = pc
    /\ \A c \in 1..Len(calls) : calls[c].state # "pending"

Runs(t, pc) == HeadIs("step") /\ Head(ready).t = t /\ tasks[t].pc = pc

\* asyncio.create_task: the new task's first step is queued behind what is ready
CreateTask(task) ==
    /\ tasks' = Append(tasks, task)
    /\ ready' = CallSoon(Tail(ready), Entry("step", task.dev, task.sensor, task.raw,
                                            task.msg, task.id))

\* the clock advances
Tick ==
    /\ now < MaxTime * TickStep
    /\ now' = now + TickStep
    /\ UNCHANGED <<devices, wsConns, link, mqttPending, ready, tasks, arrivals, readings,
                   loopBusy, rules, notifVars, callVars, histVars, trigLog, sinks, bcastLog>>

(***************************************************************************)
(* DeviceLink: BayrolMQTTManager._on_message, on the device's MQTT thread  *)
(***************************************************************************)

Subscribers(d) == link[d].subscribers

\* lines 62-83: a message for a topic of _subscribers arrives; its value is
\* parsed and handle_mqtt_message is handed to the loop with
\* call_soon_threadsafe, under the link's serial number
OnMessage(d, sensor, raw) ==
    /\ link[d].thread = "looping" /\ link[d].connected
    /\ mqttPending[d] = <<>>
    /\ Len(arrivals) < MaxMsgs
    /\ sensor \in link[d].subscribed
    /\ sensor \in Subscribers(d)
    /\ arrivals' = Append(arrivals, [dev |-> d, sensor |-> sensor, raw |-> raw])
    /\ ready' = CallSoon(ready, Entry("handle", link[d].device_id, sensor, raw,
                                      Len(arrivals) + 1, 0))
    /\ mqttPending' = [mqttPending EXCEPT
                          ![d] = <<Entry("callback", d, sensor, raw, Len(arrivals) + 1, 0)>>]
    /\ UNCHANGED <<now, devices, wsConns, link, tasks, readings, loopBusy, rules,
                   notifVars, callVars, histVars, trigLog, sinks, bcastLog>>

\* lines 85-94: the same message's subscriber callback is handed to the loop
OnMessageCallback(d) ==
    /\ mqttPending[d] # <<>>
    /\ ready' = CallSoon(ready, mqttPending[d][1])
    /\ mqttPending' = [mqttPending EXCEPT ![d] = <<>>]
    /\ UNCHANGED <<now, devices, wsConns, link, tasks, arrivals, readings, loopBusy, rules,
                   notifVars, callVars, histVars, trigLog, sinks, bcastLog>>

\* A payload as it comes off the wire: the JSON document it holds, kept by
\* its shape.  Object(v) is an object with the field v, NoField an object
\* without it, Scalar a JSON number, string or array, NotJson bytes that are
\* no JSON document.
Object(raw) == [k |-> "object", v |-> <<raw>>]

NoField == [k |-> "object", v |-> <<>>]

Scalar == [k |-> "scalar", v |-> <<>>]

NotJson == [k |-> "garbage", v |-> <<>>]

\* json.loads(payload)["v"], line 73: JSONDecodeError for bytes that are no
\* JSON, TypeError for a document that is no object, KeyError for an object
\* without the field
ParsePayload(payload) ==
    IF payload.k = "garbage" THEN Raised("JSONDecodeError")
    ELSE IF payload.k = "scalar" THEN Raised("TypeError")
    ELSE IF payload.v = <<>> THEN Raised("KeyError")
    ELSE payload.v[1]

\* an _on_message that would hand the message to the registry before it
\* reads the payload
OnMessageDropHandled(d, topic, payload) ==
    /\ link[d].thread = "looping" /\ link[d].connected
    /\ mqttPending[d] = <<>>
    /\ topic \notin Subscribers(d) \/ Raises(ParsePayload(payload))
    /\ logged' = logged \cup {[dev |-> d, topic |-> topic, after |-> Len(arrivals),
                                level |-> "error"]}
    /\ ready' = CallSoon(ready, Entry("handle", link[d].device_id, topic, None,
                                      Len(arrivals) + 1, 0))
    /\ UNCHANGED <<now, devices, wsConns, link, mqttPending, tasks, arrivals, readings,
                   loopBusy, rules, notifVars, published, reply, handles, issued, histVars,
                   trigLog, sinks, bcastLog>>

\* _on_message, lines 62-99, for a message it does not accept: the last
\* segment of the topic is not a key of _subscribers, which is logged as a
\* warning (98-99), or it is and reading the field v of the payload raises,
\* which the except clause logs as an error (96-97) before anything was
\* handed to the event loop.  after is the number of messages accepted so far.
OnMessageDrop(d, topic, payload) ==
    /\ link[d].thread = "looping" /\ link[d].connected
    /\ mqttPending[d] = <<>>
    /\ topic \notin Subscribers(d) \/ Raises(ParsePayload(payload))
    /\ logged' = logged \cup {[dev |-> d, topic |-> topic, after |-> Len(arrivals),
                                level |-> IF topic \notin Subscribers(d)
                                          THEN "warning" ELSE "error"]}
    /\ UNCHANGED <<now, devices, wsConns, link, mqttPending, ready, tasks, arrivals,
                   readings, loopBusy, rules, notifVars, published, reply, handles, issued,
                   histVars, trigLog, sinks, bcastLog>>

(***************************************************************************)
(* DeviceRegistry: DeviceManager                                           *)
(***************************************************************************)
\* a lookup that would ignore the serial number
FindAnyDevice(device_serial) == DOMAIN devices

\* the registered devices handle_mqtt_message's loop matches
FindBySerial(device_serial) ==
    {d \in DOMAIN devices : devices[d].serial = device_serial}

\* handle_mqtt_message: the first device with that serial gets a task
handle_mqtt_message ==
    /\ HeadIs("handle")
    /\ LET e == Head(ready)
           found == FindBySerial(e.dev)
       IN IF found = {}
          THEN /\ ready' = Tail(ready)
               /\ tasks' = tasks
          ELSE CreateTask(NewTask(Len(tasks) + 1, CHOOSE d \in found : TRUE,
                                  e.sensor, e.raw, e.msg))
    /\ UNCHANGED <<now, devices, wsConns, link, mqttPending, arrivals, readings, loopBusy,
                   rules, notifVars, callVars, histVars, trigLog, sinks, bcastLog>>

\* add_device's sensor_callback, run by the lambda of _on_message:
\* asyncio.create_task(callback(value))
sensor_callback ==
    /\ HeadIs("callback")
    /\ LET e == Head(ready)
       IN CreateTask(NewTask(Len(tasks) + 1, e.dev, e.sensor, e.raw, e.msg))
    /\ UNCHANGED <<now, devices, wsConns, link, mqttPending, arrivals, readings, loopBusy,
                   rules, notifVars, callVars, histVars, trigLog, sinks, bcastLog>>

\* an awaited I/O operation of task t completes: the task is ready again
IOComplete(t) ==
    /\ tasks[t].blocked
    /\ tasks[t].pc = "gather" => GatherDone(t)
    /\ tasks' = [tasks EXCEPT ![t].blocked = FALSE]
    /\ ready' = CallSoon(ready, Entry("step", tasks[t].dev, tasks[t].sensor,
                                      tasks[t].raw, tasks[t].msg, t))
    /\ UNCHANGED <<now, devices, wsConns, link, mqttPending, arrivals, readings, loopBusy,
                   rules, notifVars, callVars, histVars, trigLog, sinks, bcastLog>>

\* the sinks whose send_json raises: the peer is gone
SendRaises == {w \in DOMAIN sinks : sinks[w].state \in {"dead", "closed"}}

\* the list a broadcast pass of task iterates: the device's list, or the list
\* as it was when its dict entry was deleted under the pass
SinkList(task) ==
    IF task.frozen # <<>> THEN task.frozen[1]
    ELSE IF task.dev \in DOMAIN wsConns THEN wsConns[task.dev]
    ELSE <<>>

\* _check_alarms, lines 240-271, up to the await of check_alarm_conditions
EnterCheckAlarms(task) ==
    IF task.dev \notin DOMAIN devices THEN Done(task)
    ELSE IF task.sensor \notin DOMAIN get_sensor_types_for_device(devices[task.dev].type)
    THEN Done(task)
    ELSE Await(task, "alarms")

\* _notify_sensor_callbacks, lines 217-236, up to the first await of send_json
EnterNotify(task) ==
    IF task.dev \in DOMAIN wsConns /\ Len(wsConns[task.dev]) >= 1
    THEN [Await(task, "notify") EXCEPT !.i = 1, !.ws = wsConns[task.dev][1],
                                       !.tried = {}, !.failed = {}]
    ELSE EnterCheckAlarms(task)

\* _handle_sensor_update, lines 160-179, on the device's record: last_seen
\* and is_connected are stamped, and with a known sensor the decoded reading
\* replaces the sensor's live reading, unless format_sensor_value raises
ApplyUpdate(device, sensor, raw, t) ==
    LET stamped == [device EXCEPT !.last_seen = t, !.is_connected = TRUE]
        configs == get_sensor_types_for_device(device.type)
    IN IF sensor \notin DOMAIN configs THEN stamped
       ELSE LET formatted == format_sensor_value(configs[sensor], raw)
            IN IF Raises(formatted) THEN stamped
               ELSE
               [stamped EXCEPT !.sensors =
                   Put(device.sensors, sensor,
                       [value |-> formatted.value,
                        formatted_value |-> formatted.formatted_value,
                        unit |-> formatted.unit,
                        timestamp |-> t])]

\* _handle_sensor_update, lines 153-182: the first step of the task, up to the
\* await of the cache write
HandleSensorUpdateStart(t) ==
    /\ Runs(t, "start")
    /\ ready' = Tail(ready)
    /\ LET task == tasks[t] IN
       IF task.dev \notin DOMAIN devices
       THEN /\ tasks' = [tasks EXCEPT ![t] = Done(task)]
            /\ devices' = devices
       ELSE LET device == devices[task.dev]
                configs == get_sensor_types_for_device(device.type)
            IN /\ devices' = [devices EXCEPT ![task.dev] =
                                 ApplyUpdate(device, task.sensor, task.raw, now)]
               /\ tasks' = [tasks EXCEPT ![t] =
                     IF task.sensor \notin DOMAIN configs
                     THEN [Done(task) EXCEPT !.at = now]
                     ELSE IF Raises(format_sensor_value(configs[task.sensor], task.raw))
                     THEN [Done(task) EXCEPT
                              !.val = format_sensor_value(configs[task.sensor], task.raw),
                              !.at = now]
                     ELSE [Await(task, "persist") EXCEPT
                              !.val = handle_sensor_value(configs[task.sensor], task.raw),
                              !.at = now]]
    /\ UNCHANGED <<now, wsConns, link, mqttPending, arrivals, readings, loopBusy, rules,
                   notifVars, callVars, histVars, trigLog, sinks, bcastLog>>

\* lines 182-193: the cache write and _save_sensor_reading are done; the
\* broadcast of the sensor update begins
HandleSensorUpdatePersisted(t) ==
    /\ Runs(t, "persist")
    /\ ready' = Tail(ready)
    /\ readings' = [readings EXCEPT ![tasks[t].dev] = @ + 1]
    /\ tasks' = [tasks EXCEPT ![t] = EnterNotify(tasks[t])]
    /\ UNCHANGED <<now, devices, wsConns, link, mqttPending, arrivals, loopBusy, rules,
                   notifVars, callVars, histVars, trigLog, sinks, bcastLog>>

\* lines 234-238: a send_json of the sensor-update pass returns or raises (the
\* error is logged); the pass goes on to the next sink of the list, and after
\* the last one _check_alarms begins
HandleSensorUpdateNotified(t) ==
    /\ Runs(t, "notify")
    /\ ready' = Tail(ready)
    /\ LET task == tasks[t]
           sent == [task EXCEPT !.tried = @ \cup {task.ws},
                                !.failed = IF task.ws \in SendRaises
                                           THEN @ \cup {task.ws} ELSE @]
           list == SinkList(task)
       IN IF task.i + 1 <= Len(list)
          THEN /\ tasks' = [tasks EXCEPT ![t] =
                              [Await(sent, "notify") EXCEPT !.i = task.i + 1,
                                                            !.ws = list[task.i + 1]]]
               /\ bcastLog' = bcastLog
          ELSE /\ tasks' = [tasks EXCEPT ![t] =
                              EnterCheckAlarms([sent EXCEPT !.frozen = <<>>])]
               /\ bcastLog' = [kind |-> "sensor_update", dev |-> task.dev,
                               tried |-> sent.tried, failed |-> sent.failed,
                               after |-> list]
    /\ UNCHANGED <<now, devices, wsConns, link, mqttPending, arrivals, readings, loopBusy,
                   rules, notifVars, callVars, histVars, trigLog, sinks>>

\* check_alarm_conditions returns (alarm_service.py 92-138); with alarms
\* triggered, _check_alarms awaits the device row (device_manager.py 273-278)
HandleAlarmsChecked(t) ==
    /\ Runs(t, "alarms")
    /\ ready' = Tail(ready)
    /\ LET task == tasks[t]
           triggered_alarms ==
               check_alarm_conditions(task.dev, task.sensor, AlarmValue(task.val))
       IN /\ trigLog' = trigLog \cup
                 {[rule |-> triggered_alarms[j], msg |-> task.msg, t |-> t, at |-> now] :
                     j \in 1..Len(triggered_alarms)}
          /\ tasks' = [tasks EXCEPT ![t] =
                 IF triggered_alarms = <<>> THEN [Done(task) EXCEPT !.evalAt = now]
                 ELSE [Await(task, "devdb") EXCEPT !.trig = triggered_alarms,
                                                   !.triggered = Range(triggered_alarms),
                                                   !.evalAt = now]]
    /\ UNCHANGED <<now, devices, wsConns, link, mqttPending, arrivals, readings, loopBusy,
                   rules, notifVars, callVars, histVars, sinks, bcastLog>>

\* create_alarm_history with queue_for_batch=True, up to the await of lpush
EnterHistory(task) ==
    [Await(task, "enqueue") EXCEPT
        !.hist = <<[alarm_id |-> Head(task.trig), device_id |-> task.dev,
                    triggered_at |-> now, msg |-> task.msg, t |-> task.id]>>]

\* send_websocket_alarm_notification, lines 210-233, up to the first send_json
EnterWsAlarm(task) ==
    IF task.dev \notin DOMAIN wsConns
    THEN EnterHistory([task EXCEPT !.broadcast = @ \cup {Head(task.trig)}])
    ELSE IF Len(wsConns[task.dev]) >= 1
    THEN [Await(task, "wsalarm") EXCEPT !.i = 1, !.ws = wsConns[task.dev][1],
                                        !.disconnected = <<>>,
                                        !.tried = {}, !.failed = {}]
    ELSE EnterHistory([task EXCEPT !.broadcast = @ \cup {Head(task.trig)}])

\* the results loop of send_alarm_notification reads coro.cr_frame.f_locals of
\* each gathered coroutine; cr_frame of a finished coroutine is None, so with
\* any coroutine gathered the loop raises AttributeError
ResultsLoopRaises(ntasks) == ntasks > 0

\* _check_alarms, lines 283-298: for the alarm at the head of the triggered
\* list, send_alarm_notification selects the targets and gathers them; with
\* none it returns at once and the WebSocket notification follows.  The
\* payload is built first (lines 78-102): an exception of _determine_severity
\* leaves send_alarm_notification before any target is looked at and is
\* caught by _check_alarms (line 326), which returns.  Gives the task, the
\* breaker and the new coroutines.
StartAlarm(t, task) ==
    LET sel == SelectTargets(breaker, ConfiguredTargets(rules[Head(task.trig)]))
        sev == DetermineSeverity(rules[Head(task.trig)], task.val)
        called == [task EXCEPT !.dispatched = @ \cup {Head(task.trig)},
                               !.severity = Put(@, Head(task.trig), sev)]
    IN IF sev \in Faults
       THEN [b |-> breaker, new |-> <<>>, log |-> posts, task |-> Done(called)]
       ELSE [b |-> sel.b,
             new |-> NewCalls(t, sel.tasks, sev),
             log |-> LogPosts(posts, sel.tasks),
             task |-> IF sel.tasks # <<>> THEN Await(called, "gather")
                      ELSE EnterWsAlarm(called)]

\* the device row is loaded: the loop over the triggered alarms begins
HandleDeviceLoaded(t) ==
    /\ Runs(t, "devdb")
    /\ ready' = Tail(ready)
    /\ LET st == StartAlarm(t, tasks[t])
       IN /\ tasks' = [tasks EXCEPT ![t] = st.task]
          /\ breaker' = st.b
          /\ calls' = calls \o st.new
          /\ posts' = st.log
    /\ UNCHANGED <<now, devices, wsConns, link, mqttPending, arrivals, readings, loopBusy,
                   rules, api, settings, callVars, histVars, trigLog, sinks, bcastLog>>

\* asyncio.gather returns in send_alarm_notification (lines 127-138); an
\* exception of the results loop is caught by _check_alarms (line 326), which
\* logs it and returns
HandleGathered(t) ==
    /\ Runs(t, "gather")
    /\ ready' = Tail(ready)
    /\ calls' = DropCalls(t)
    /\ tasks' = [tasks EXCEPT ![t] =
                    IF ResultsLoopRaises(Cardinality(CallsOf(t))) THEN Done(tasks[t])
                    ELSE EnterWsAlarm(tasks[t])]
    /\ UNCHANGED <<now, devices, wsConns, link, mqttPending, arrivals, readings, loopBusy,
                   rules, breaker, posts, api, settings, callVars, histVars, trigLog, sinks,
                   bcastLog>>

\* lines 239-240: list.remove of each sink in turn; the first one that is not
\* in the list raises ValueError and ends the removal
RECURSIVE RemoveAll(_, _)
RemoveAll(l, dead) ==
    IF dead = <<>> THEN [list |-> l, raised |-> FALSE]
    ELSE IF Head(dead) \notin Range(l) THEN [list |-> l, raised |-> TRUE]
    ELSE RemoveAll(ListRemove(l, Head(dead)), Tail(dead))

\* a send_json of the alarm pass returns or raises (lines 231-240); after the
\* last sink the sinks that raised are removed from the device's list.  The
\* removal raises when the device's entry or the sink is gone by then, and
\* _check_alarms catches that.
HandleAlarmSent(t) ==
    /\ Runs(t, "wsalarm")
    /\ ready' = Tail(ready)
    /\ LET task == tasks[t]
           raised == task.ws \in SendRaises
           sent == [task EXCEPT !.tried = @ \cup {task.ws},
                                !.failed = IF raised THEN @ \cup {task.ws} ELSE @,
                                !.disconnected = IF raised THEN Append(@, task.ws) ELSE @]
           list == SinkList(task)
       IN IF task.i + 1 <= Len(list)
          THEN /\ tasks' = [tasks EXCEPT ![t] =
                              [Await(sent, "wsalarm") EXCEPT !.i = task.i + 1,
                                                             !.ws = list[task.i + 1]]]
               /\ UNCHANGED <<wsConns, bcastLog>>
          ELSE IF sent.disconnected # <<>> /\ task.dev \notin DOMAIN wsConns
          THEN /\ tasks' = [tasks EXCEPT ![t] = Done(sent)]
               /\ UNCHANGED <<wsConns, bcastLog>>
          ELSE LET pr == IF sent.disconnected = <<>>
                         THEN [list |-> list, raised |-> FALSE]
                         ELSE RemoveAll(wsConns[task.dev], sent.disconnected)
               IN /\ wsConns' = IF sent.disconnected = <<>> THEN wsConns
                                ELSE [wsConns EXCEPT ![task.dev] = pr.list]
                  /\ IF pr.raised
                     THEN /\ tasks' = [tasks EXCEPT ![t] = Done(sent)]
                          /\ bcastLog' = bcastLog
                     ELSE /\ tasks' = [tasks EXCEPT ![t] =
                                         EnterHistory([sent EXCEPT
                                             !.frozen = <<>>,
                                             !.broadcast = @ \cup {Head(task.trig)}])]
                          /\ bcastLog' = [kind |-> "alarm_triggered", dev |-> task.dev,
                                          tried |-> sent.tried, failed |-> sent.failed,
                                          after |-> pr.list]
    /\ UNCHANGED <<now, devices, link, mqttPending, arrivals, readings, loopBusy, rules,
                   notifVars, callVars, histVars, trigLog, sinks>>

\* an enqueue whose lpush would let the error of an unreachable Redis out:
\* it leaves create_alarm_history and is caught by _check_alarms (line 326),
\* which returns
HandleHistoryQueuedRaising(t, reachable) ==
    /\ Runs(t, "enqueue")
    /\ ready' = Tail(ready)
    /\ LET task == tasks[t]
           ev == task.hist[1]
           next == [task EXCEPT !.queued = @ \cup {ev.alarm_id}, !.hist = <<>>,
                                !.trig = Tail(@)]
           st == StartAlarm(t, next)
       IN IF ~reachable
          THEN /\ tasks' = [tasks EXCEPT ![t] = Done([task EXCEPT !.hist = <<>>])]
               /\ UNCHANGED <<histQueue, accepted, breaker, calls, posts>>
          ELSE /\ histQueue' = Append(histQueue, ev)
               /\ accepted' = accepted \cup {ev}
               /\ IF next.trig = <<>>
                  THEN /\ tasks' = [tasks EXCEPT ![t] = Done(next)]
                       /\ UNCHANGED <<breaker, calls, posts>>
                  ELSE /\ tasks' = [tasks EXCEPT ![t] = st.task]
                       /\ breaker' = st.b
                       /\ calls' = calls \o st.new
                       /\ posts' = st.log
    /\ UNCHANGED <<now, devices, wsConns, link, mqttPending, arrivals, readings, loopBusy,
                   rules, api, settings, callVars, histStore, flush, trigLog, sinks, bcastLog>>

\* lpush returns in add_alarm_history_queue (redis_service.py 118-129, 185-187):
\* the event is on the queue, or Redis was unreachable and the error was logged;
\* _check_alarms goes on to the next triggered alarm (lines 283-324)
HandleHistoryQueued(t, reachable) ==
    /\ Runs(t, "enqueue")
    /\ ready' = Tail(ready)
    /\ LET task == tasks[t]
           ev == task.hist[1]
           next == [task EXCEPT !.queued = @ \cup {ev.alarm_id}, !.hist = <<>>,
                                !.trig = Tail(@)]
           st == StartAlarm(t, next)
       IN /\ IF reachable
             THEN /\ histQueue' = Append(histQueue, ev)
                  /\ accepted' = accepted \cup {ev}
             ELSE UNCHANGED <<histQueue, accepted>>
          /\ IF next.trig = <<>>
             THEN /\ tasks' = [tasks EXCEPT ![t] = Done(next)]
                  /\ UNCHANGED <<breaker, calls, posts>>
             ELSE /\ tasks' = [tasks EXCEPT ![t] = st.task]
                  /\ breaker' = st.b
                  /\ calls' = calls \o st.new
                  /\ posts' = st.log
    /\ UNCHANGED <<now, devices, wsConns, link, mqttPending, arrivals, readings, loopBusy,
                   rules, api, settings, callVars, histStore, flush, trigLog, sinks, bcastLog>>

(***************************************************************************)
(* HistoryQueueWriter: process_alarm_history_task, one pass of its loop    *)
(***************************************************************************)
BATCH_SIZE == 100

\* background_tasks.py 19-22: the periodic task calls
\* process_alarm_history_batch, which awaits the first rpop
FlushBegin ==
    /\ LoopFree
    /\ flush.pc = "idle"
    /\ flush' = [pc |-> "popping", batch |-> <<>>, returned |-> <<>>]
    /\ UNCHANGED <<now, devices, wsConns, link, mqttPending, ready, tasks, arrivals, readings,
                   loopBusy, rules, notifVars, callVars, histQueue, histStore, accepted, trigLog,
                   sinks, bcastLog>>

\* a batch reader that would pop until the queue is empty
FlushPopAll ==
    /\ LoopFree
    /\ flush.pc = "popping"
    /\ IF histQueue # <<>>
       THEN /\ flush' = [flush EXCEPT !.batch = Append(@, Head(histQueue))]
            /\ histQueue' = Tail(histQueue)
       ELSE /\ flush' = IF flush.batch = <<>>
                        THEN [flush EXCEPT !.pc = "returned", !.returned = <<0>>]
                        ELSE [flush EXCEPT !.pc = "writing"]
            /\ histQueue' = histQueue
    /\ UNCHANGED <<now, devices, wsConns, link, mqttPending, ready, tasks, arrivals, readings,
                   loopBusy, rules, notifVars, callVars, histStore, accepted, trigLog, sinks,
                   bcastLog>>

\* get_alarm_history_batch (redis_service.py 189-200): one rpop returns; an
\* item joins the batch, no item (or a full batch) ends the popping; with an
\* empty batch process_alarm_history_batch returns 0
FlushPop ==
    /\ LoopFree
    /\ flush.pc = "popping"
    /\ IF histQueue # <<>> /\ Len(flush.batch) < BATCH_SIZE
       THEN /\ flush' = [flush EXCEPT !.batch = Append(@, Head(histQueue))]
            /\ histQueue' = Tail(histQueue)
       ELSE /\ flush' = IF flush.batch = <<>>
                        THEN [flush EXCEPT !.pc = "returned", !.returned = <<0>>]
                        ELSE [flush EXCEPT !.pc = "writing"]
            /\ histQueue' = histQueue
    /\ UNCHANGED <<now, devices, wsConns, link, mqttPending, ready, tasks, arrivals, readings,
                   loopBusy, rules, notifVars, callVars, histStore, accepted, trigLog, sinks,
                   bcastLog>>

\* alarm.last_triggered = triggered_at, for each item of the batch in order
StampRules(rs, batch) ==
    [r \in DOMAIN rs |->
        LET mine == {i \in 1..Len(batch) : batch[i].alarm_id = r}
            last == CHOOSE i \in mine : \A j \in mine : j <= i
        IN  IF mine = {} THEN rs[r]
            ELSE [rs[r] EXCEPT !.last_triggered = batch[last].triggered_at]]

\* process_alarm_history_batch, lines 219-251: the rows are added and
\* committed and len(batch) is returned, or the session raises; the
\* exception leaves the function, to be logged by process_alarm_history_task.
\* The batch is a local variable of the pass.
FlushWrite(committed) ==
    /\ LoopFree
    /\ flush.pc = "writing"
    /\ IF committed
       THEN /\ histStore' = histStore \cup Range(flush.batch)
            /\ rules' = StampRules(rules, flush.batch)
       ELSE UNCHANGED <<histStore, rules>>
    /\ flush' = IF committed
                THEN [pc |-> "returned", batch |-> <<>>, returned |-> <<Len(flush.batch)>>]
                ELSE [pc |-> "raised", batch |-> <<>>, returned |-> <<>>]
    /\ UNCHANGED <<now, devices, wsConns, link, mqttPending, ready, tasks, arrivals, readings,
                   loopBusy, notifVars, callVars, histQueue, accepted, trigLog, sinks, bcastLog>>

\* process_alarm_history_task (background_tasks.py 22-39): the count returned
\* is logged, or the exception is, and the task sleeps until its next pass
FlushSleep ==
    /\ LoopFree
    /\ flush.pc \in {"returned", "raised"}
    /\ flush' = [pc |-> "idle", batch |-> <<>>, returned |-> <<>>]
    /\ UNCHANGED <<now, devices, wsConns, link, mqttPending, ready, tasks, arrivals, readings,
                   loopBusy, rules, notifVars, callVars, histQueue, histStore, accepted, trigLog,
                   sinks, bcastLog>>

(***************************************************************************)
(* The test endpoint of an alarm (api/v1/alarms.py, test_alarm), a second  *)
(* caller of send_alarm_notification                                       *)
(***************************************************************************)
ApiOwner == 0

PostsStarted ==
    LET RECURSIVE Count(_)
        Count(S) == IF S = {} THEN 0
                    ELSE LET u == CHOOSE x \in S : TRUE
                         IN Cardinality({j \in 1..Len(posts[u]) : posts[u][j].e = "post"})
                            + Count(S \ {u})
    IN Count(DOMAIN posts)

\* the request the test endpoint is serving or has served last: the rule and
\* test value, the severity computed, the notification types configured and
\* attempted, and what send_alarm_notification did: result is "returned" or
\* "raised", results the map returned
ApiCall(pc, r, test_value, severity, configured, attempted, result, results) ==
    [pc |-> pc, rule |-> r, value |-> test_value, severity |-> severity,
     configured |-> configured, attempted |-> attempted,
     result |-> result, results |-> results,
     skipped |-> result = "returned" /\ configured # {} /\ attempted = {}]

NoRule == 0

NoApiCall == ApiCall("idle", NoRule, <<>>, "", {}, {}, "", EmptyDict)

\* test_alarm with the query parameter test_value, up to the gather of
\* send_alarm_notification.  An exception of _determine_severity leaves the
\* endpoint before any target is looked at; with no target available
\* send_alarm_notification returns its empty map at once.
TestAlarm(r, test_value) ==
    /\ LoopFree
    /\ api.pc = "idle"
    /\ r \in DOMAIN rules
    /\ PostsStarted < MaxPosts
    /\ LET sel == SelectTargets(breaker, ConfiguredTargets(rules[r]))
           sev == DetermineSeverity(rules[r], test_value)
           configured == Types(ConfiguredTargets(rules[r]))
       IN IF sev \in Faults
          THEN /\ api' = ApiCall("idle", r, <<test_value>>, sev, configured, {},
                                 "raised", EmptyDict)
               /\ UNCHANGED <<breaker, calls, posts>>
          ELSE /\ breaker' = sel.b
               /\ calls' = calls \o NewCalls(ApiOwner, sel.tasks, sev)
               /\ posts' = LogPosts(posts, sel.tasks)
               /\ api' = IF sel.tasks # <<>>
                         THEN ApiCall("gather", r, <<test_value>>, sev, configured,
                                      Types(sel.tasks), "", EmptyDict)
                         ELSE ApiCall("idle", r, <<test_value>>, sev, configured, {},
                                      "returned", EmptyDict)
    /\ UNCHANGED <<now, devices, wsConns, link, mqttPending, ready, tasks, arrivals, readings,
                   loopBusy, rules, settings, callVars, histVars, trigLog, sinks, bcastLog>>

\* the gather returns: the results loop of send_alarm_notification runs
TestAlarmGathered ==
    /\ LoopFree
    /\ api.pc = "gather"
    /\ GatherDone(ApiOwner)
    /\ api' = IF ResultsLoopRaises(Cardinality(CallsOf(ApiOwner)))
              THEN [api EXCEPT !.pc = "idle", !.result = "raised"]
              ELSE [api EXCEPT !.pc = "idle", !.result = "returned",
                               !.results = ResultsOf(ApiOwner)]
    /\ calls' = DropCalls(ApiOwner)
    /\ UNCHANGED <<now, devices, wsConns, link, mqttPending, ready, tasks, arrivals, readings,
                   loopBusy, rules, breaker, posts, settings, callVars, histVars, trigLog, sinks,
                   bcastLog>>

(***************************************************************************)
(* EventFanout: the WebSocket endpoint (api/v1/websocket.py) and           *)
(* register_websocket / unregister_websocket                               *)
(***************************************************************************)
Sinks == {"ws1", "ws2"}

\* websocket_endpoint, lines 54-57: the connection is accepted and registered
Subscribe(d, w) ==
    /\ LoopFree
    /\ sinks[w].state = "free"
    /\ sinks' = [sinks EXCEPT ![w] = [state |-> "open", dev |-> d]]
    /\ wsConns' = Put(wsConns, d,
                      Append(IF d \in DOMAIN wsConns THEN wsConns[d] ELSE <<>>, w))
    /\ UNCHANGED <<now, devices, link, mqttPending, ready, tasks, arrivals, readings,
                   loopBusy, rules, notifVars, callVars, histVars, trigLog, bcastLog>>

\* the peer of an open WebSocket goes away
SinkDies(w) ==
    /\ sinks[w].state = "open"
    /\ sinks' = [sinks EXCEPT ![w].state = "dead"]
    /\ UNCHANGED <<now, devices, wsConns, link, mqttPending, ready, tasks, arrivals, readings,
                   loopBusy, rules, notifVars, callVars, histVars, trigLog, bcastLog>>

\* unregister_websocket: the new dict; list.remove raises ValueError when the
\* sink is not in the list, and the dict is left as it is
UnregisterWebsocket(conns, d, w) ==
    IF d \notin DOMAIN conns THEN conns
    ELSE IF w \notin Range(conns[d]) THEN conns
    ELSE IF ListRemove(conns[d], w) = <<>> THEN Del(conns, d)
    ELSE [conns EXCEPT ![d] = ListRemove(conns[d], w)]

\* unregister_websocket, lines 348-349: the device has an entry and
\* list.remove does not find the sink, which raises ValueError
UnregisterRaises(conns, d, w) ==
    d \in DOMAIN conns /\ w \notin Range(conns[d])

\* websocket_endpoint, lines 89-95: receive_text of a dead connection raises
\* and the handler's finally unregisters the sink
Unsubscribe(w) ==
    /\ LoopFree
    /\ sinks[w].state = "dead"
    /\ sinks' = [sinks EXCEPT ![w].state = "closed"]
    /\ wsConns' = UnregisterWebsocket(wsConns, sinks[w].dev, w)
    /\ UNCHANGED <<now, devices, link, mqttPending, ready, tasks, arrivals, readings,
                   loopBusy, rules, notifVars, callVars, histVars, trigLog, bcastLog>>

(***************************************************************************)
(* DeviceLink: the link's thread (BayrolMQTTManager._start) and stop()      *)
(***************************************************************************)
Devices == {"d1", "d2"}

Serial(d) == IF d = "d1" THEN "S1" ELSE "S2"

\* BayrolMQTTManager.__init__
NewLink(device_serial) ==
    [device_id |-> device_serial,
     subscribers |-> {},     \* keys of _subscribers
     subscribed |-> {},      \* topics the broker session is subscribed to
     thread |-> "none",      \* none, started, connecting, looping, exited
     client |-> FALSE,       \* self.client is not None
     connected |-> FALSE,
     stopReq |-> FALSE]      \* client.disconnect() was called

\* before the first _on_connect of a link
NoConnect == [rc |-> <<>>, entries |-> 0, cmds |-> EmptyDict]

\* an _on_connect that would subscribe without asking for the current values
OnConnectSubscribeOnly(l, before, rc) ==
    [rc |-> <<rc>>,
     entries |-> IF rc = 0 /\ before.entries < MaxEntries
                 THEN before.entries + 1 ELSE before.entries,
     cmds |-> IF rc = 0
              THEN [topic \in l.subscribers |-> <<[op |-> "subscribe", topic |-> <<"v", topic>>]>>]
              ELSE EmptyDict]

\* _on_connect(client, userdata, flags, rc), lines 51-60: with rc = 0, for
\* every topic of _subscribers, client.subscribe of d02/<serial>/v/<topic>
\* and then client.publish on d02/<serial>/g/<topic>; with any other rc the
\* error is logged.  cmds keeps the two commands of each topic in the order
\* they were sent; entries counts the calls with rc = 0, up to MaxEntries.
OnConnect(l, before, rc) ==
    [rc |-> <<rc>>,
     entries |-> IF rc = 0 /\ before.entries < MaxEntries
                 THEN before.entries + 1 ELSE before.entries,
     cmds |-> IF rc = 0
              THEN [topic \in l.subscribers |->
                       <<[op |-> "subscribe", topic |-> <<"v", topic>>],
                         [op |-> "publish", topic |-> <<"g", topic>>]>>]
              ELSE EmptyDict]

\* _start, lines 108-113: the thread creates the client
ThreadCreateClient(d) ==
    /\ link[d].thread = "started"
    /\ link' = [link EXCEPT ![d].thread = "connecting", ![d].client = TRUE]
    /\ UNCHANGED <<now, devices, wsConns, mqttPending, ready, tasks, arrivals, readings,
                   loopBusy, rules, notifVars, callVars, histVars, trigLog, sinks, bcastLog>>

\* _start, lines 115-122: connect() raises, which is logged and ends the
\* thread, or returns and loop_forever begins, whose _on_connect subscribes to
\* every topic of _subscribers
ThreadConnect(d, ok) ==
    /\ link[d].thread = "connecting"
    /\ link' = [link EXCEPT ![d] =
                   IF ok THEN [@ EXCEPT !.thread = "looping", !.connected = TRUE,
                                        !.subscribed = link[d].subscribers]
                   ELSE [@ EXCEPT !.thread = "exited"]]
    /\ issued' = IF ok THEN [issued EXCEPT ![d] = OnConnect(link[d], @, 0)] ELSE issued
    /\ UNCHANGED <<now, devices, wsConns, mqttPending, ready, tasks, arrivals, readings,
                   loopBusy, rules, notifVars, published, reply, handles, logged, histVars, trigLog,
                   sinks, bcastLog>>

\* the broker session of a running loop is lost (_on_disconnect, rc # 0)
ConnectionLost(d) ==
    /\ link[d].thread = "looping" /\ link[d].connected
    /\ mqttPending[d] = <<>>
    /\ link' = [link EXCEPT ![d].connected = FALSE, ![d].subscribed = {}]
    /\ UNCHANGED <<now, devices, wsConns, mqttPending, ready, tasks, arrivals, readings,
                   loopBusy, rules, notifVars, callVars, histVars, trigLog, sinks, bcastLog>>

\* loop_forever reconnects a lost session; _on_connect subscribes again
Reconnect(d) ==
    /\ link[d].thread = "looping" /\ ~link[d].connected /\ ~link[d].stopReq
    /\ link' = [link EXCEPT ![d].connected = TRUE,
                            ![d].subscribed = link[d].subscribers]
    /\ issued' = [issued EXCEPT ![d] = OnConnect(link[d], @, 0)]
    /\ UNCHANGED <<now, devices, wsConns, mqttPending, ready, tasks, arrivals, readings,
                   loopBusy, rules, notifVars, published, reply, handles, logged, histVars, trigLog,
                   sinks, bcastLog>>

\* the broker answers a connection attempt of loop_forever with a result code
\* other than 0 (credentials refused, server unavailable): _on_connect logs
\* the error; the session is not up and loop_forever will try again
ConnectRefused(d, rc) ==
    /\ link[d].thread \in {"connecting", "looping"}
    /\ ~link[d].connected /\ ~link[d].stopReq
    /\ link' = [link EXCEPT ![d].thread = "looping"]
    /\ issued' = [issued EXCEPT ![d] = OnConnect(link[d], @, rc)]
    /\ UNCHANGED <<now, devices, wsConns, mqttPending, ready, tasks, arrivals, readings,
                   loopBusy, rules, notifVars, published, reply, handles, logged, histVars, trigLog,
                   sinks, bcastLog>>

\* loop_forever returns after client.disconnect(): the thread ends
ThreadStopSeen(d) ==
    /\ link[d].thread = "looping" /\ link[d].stopReq
    /\ mqttPending[d] = <<>>
    /\ link' = [link EXCEPT ![d].thread = "exited", ![d].connected = FALSE,
                            ![d].subscribed = {}]
    /\ UNCHANGED <<now, devices, wsConns, mqttPending, ready, tasks, arrivals, readings,
                   loopBusy, rules, notifVars, callVars, histVars, trigLog, sinks, bcastLog>>

\* stop(), lines 134-136: with a client, disconnect() and loop_stop() are called
StopRequest(l) == [l EXCEPT !.stopReq = l.client]

\* stop(), lines 137-138: thread.join(timeout=5) returns when the thread has
\* ended, or after five seconds with the thread alive.  A thread that was asked
\* to stop is taken to end within the five seconds; one that was not is
\* connecting or looping when the time is up.
JoinReturns(l) ==
    \/ l.thread \in {"none", "exited"}
    \/ ~l.stopReq /\ l.thread \in {"connecting", "looping"}

(***************************************************************************)
(* DeviceRegistry: add_device and remove_device                            *)
(***************************************************************************)
DeviceType == "Automatic SALT"

NewDevice(device_serial, device_type) ==
    [serial |-> device_serial, type |-> device_type, sensors |-> EmptyDict,
     last_seen |-> NoTime, is_connected |-> FALSE]

\* the topics add_device subscribes the link to (lines 84-90)
SensorTopics(device_type) ==
    {s \in DOMAIN get_sensor_types_for_device(device_type) :
        get_sensor_types_for_device(device_type)[s].entity_type = "sensor"}

\* what add_device returned
AddReply(d, returned) == [op |-> "add_device", device_id |-> d, returned |-> returned]

\* an add_device that would register a registered device again: a new record
\* and a new link replace the ones it has
AddDeviceOverwrite(d) ==
    /\ LoopFree
    /\ d \notin DOMAIN devices => link[d].thread \in {"none", "exited"}
    /\ devices' = Put(devices, d, NewDevice(Serial(d), DeviceType))
    /\ link' = [link EXCEPT ![d] =
                   [NewLink(Serial(d)) EXCEPT !.subscribers = SensorTopics(DeviceType),
                                              !.thread = "started"]]
    /\ reply' = AddReply(d, TRUE)
    /\ issued' = [issued EXCEPT ![d] = NoConnect]
    /\ UNCHANGED <<now, wsConns, mqttPending, ready, tasks, arrivals, readings, loopBusy,
                   rules, notifVars, published, handles, logged, histVars, trigLog, sinks, bcastLog>>

\* add_device: for a registered device id it logs a warning and returns False
\* (lines 58-60).  A device that is not registered gets its record and a new
\* link, subscribed to its sensors, whose thread is started, and True is
\* returned.  The model adds a device again only when the thread of its
\* earlier link has ended.
AddDevice(d) ==
    /\ LoopFree
    /\ IF d \in DOMAIN devices
       THEN /\ reply' = AddReply(d, FALSE)
            /\ UNCHANGED <<devices, link, issued>>
       ELSE /\ link[d].thread \in {"none", "exited"}
            /\ devices' = Put(devices, d, NewDevice(Serial(d), DeviceType))
            /\ link' = [link EXCEPT ![d] =
                           [NewLink(Serial(d)) EXCEPT
                               !.subscribers = SensorTopics(DeviceType),
                               !.thread = "started"]]
            /\ reply' = AddReply(d, TRUE)
            /\ issued' = [issued EXCEPT ![d] = NoConnect]
    /\ UNCHANGED <<now, wsConns, mqttPending, ready, tasks, arrivals, readings, loopBusy,
                   rules, notifVars, published, handles, logged, histVars, trigLog, sinks, bcastLog>>

\* remove_device, lines 106-113, up to the join of stop(): the call is
\* synchronous, so the event loop runs nothing else until it returns
RemoveDeviceBegin(d) ==
    /\ LoopFree
    /\ d \in DOMAIN devices
    /\ link' = [link EXCEPT ![d] = StopRequest(@)]
    /\ loopBusy' = d
    /\ UNCHANGED <<now, devices, wsConns, mqttPending, ready, tasks, arrivals, readings,
                   rules, notifVars, callVars, histVars, trigLog, sinks, bcastLog>>

\* a broadcast pass of the device that is between two sends keeps the list
\* object it iterates when the dict entry is deleted
Freeze(task, d) ==
    IF task.dev = d /\ task.pc \in {"notify", "wsalarm"} /\ task.frozen = <<>>
       /\ d \in DOMAIN wsConns
    THEN [task EXCEPT !.frozen = <<wsConns[d]>>]
    ELSE task

\* a reader that holds the device's own dict keeps it, as it is, when the
\* registry deletes its entry
Detach(h, d) ==
    IF h.live /\ h.dev = d THEN [h EXCEPT !.live = FALSE, !.got = <<devices[d]>>] ELSE h

\* remove_device, lines 115-125: the join has returned; the device's record and
\* its list of WebSockets are deleted
RemoveDeviceEnd(d) ==
    /\ loopBusy = d
    /\ JoinReturns(link[d])
    /\ devices' = Del(devices, d)
    /\ wsConns' = Del(wsConns, d)
    /\ tasks' = [t \in 1..Len(tasks) |-> Freeze(tasks[t], d)]
    /\ loopBusy' = NoDev
    /\ handles' = [i \in 1..Len(handles) |-> Detach(handles[i], d)]
    /\ UNCHANGED <<now, link, mqttPending, ready, arrivals, readings, rules, notifVars,
                   published, reply, issued, logged, histVars, trigLog, sinks, bcastLog>>

(***************************************************************************)
(* Select writes: PUT /{device_id}/select/{sensor_type} (api/v1/sensors.py *)
(* update_select_sensor), DeviceManager.send_select_value and              *)
(* BayrolMQTTManager.publish.  The devices table has a row for every       *)
(* device id of the model.  After the row is read the endpoint does not    *)
(* await anything that suspends: it is one step of the event loop.         *)
(***************************************************************************)
\* publish, lines 45-49: the client sends only while its session is up
Publishes(l) == l.client /\ l.connected

\* sensor_config.get('options', [])
OptionsOf(sensor_config) ==
    IF "options" \in DOMAIN sensor_config THEN sensor_config.options ELSE {}

\* a validation that would check the type of the value only
ValueInOptionsTypeOnly(sensor_config, value) ==
    \/ OptionsOf(sensor_config) = {}
    \/ (\E o \in OptionsOf(sensor_config) : o.k = "num") => CanFloat(value)

\* update_select_sensor, lines 283-302: numeric options are compared with
\* float(value), other options with the string itself; a string float()
\* cannot parse is invalid
ValueInOptions(sensor_config, value) ==
    LET options == OptionsOf(sensor_config)
    IN IF options = {} THEN TRUE
       ELSE IF \E o \in options : o.k = "num"
       THEN CanFloat(value) /\ \E o \in options : NumEq(o, PyFloat(value))
       ELSE value \in options

\* send_select_value: what it returns and the value it hands to publish
send_select_value(device_id, sensor_id, value) ==
    IF device_id \notin DOMAIN devices THEN [returned |-> FALSE, publish |-> <<>>]
    ELSE LET device == devices[device_id]
             sensor_config == Get(get_sensor_types_for_device(device.type), sensor_id)
         IN IF sensor_config = <<>> \/ sensor_config[1].entity_type # "select"
            THEN [returned |-> FALSE, publish |-> <<>>]
            ELSE LET mqtt_value == get_mqtt_value_for_select(device.type, sensor_id, value)
                 IN IF mqtt_value # <<>> /\ mqtt_value # <<"">>
                    THEN [returned |-> TRUE, publish |-> mqtt_value]
                    ELSE [returned |-> FALSE, publish |-> <<>>]

\* the response of update_select_sensor, lines 261-311
SelectResponse(device_id, sensor_type, value) ==
    IF device_id \notin DOMAIN devices \/ ~devices[device_id].is_connected
    THEN [status |-> 400, detail |-> "Device is not connected"]
    ELSE LET sensor_config ==
                 Get(get_sensor_types_for_device(devices[device_id].type), sensor_type)
         IN IF sensor_config = <<>>
            THEN [status |-> 404, detail |-> "Sensor not found for this device"]
            ELSE IF sensor_config[1].entity_type # "select"
            THEN [status |-> 400, detail |-> "Sensor is not a select entity"]
            ELSE IF ~ValueInOptions(sensor_config[1], value)
            THEN [status |-> 400, detail |-> "Invalid value"]
            ELSE IF ~send_select_value(device_id, sensor_type, value).returned
            THEN [status |-> 500, detail |-> "Failed to update sensor value"]
            ELSE [status |-> 204, detail |-> ""]

\* update_select_sensor: the request is answered; send_select_value is
\* reached only past the checks, and its publish sends only on a live session
UpdateSelectSensor(device_id, sensor_type, value) ==
    /\ LoopFree
    /\ Len(published) < MaxWrites
    /\ LET response == SelectResponse(device_id, sensor_type, value)
           reached == response.status \in {204, 500}
           publish == IF reached
                      THEN send_select_value(device_id, sensor_type, value).publish
                      ELSE <<>>
           sent == publish # <<>> /\ Publishes(link[device_id])
       IN /\ reply' = [op |-> "update_select_sensor", device_id |-> device_id,
                       sensor_type |-> sensor_type, value |-> value,
                       status |-> response.status, detail |-> response.detail,
                       publish |-> publish, sent |-> sent]
          /\ published' = IF sent
                          THEN Append(published, [device_id |-> link[device_id].device_id,
                                                  topic |-> sensor_type, v |-> publish[1]])
                          ELSE published
    /\ UNCHANGED <<now, devices, wsConns, link, mqttPending, ready, tasks, arrivals, readings,
                   loopBusy, rules, notifVars, handles, issued, logged, histVars, trigLog, sinks, bcastLog>>

(***************************************************************************)
(* Readers of the registry: get_device, get_all_devices and                *)
(* get_device_sensors (device_manager.py 127-151).  A reader keeps what it *)
(* was given in handles: got is the value at the time of the call, live    *)
(* tells that the value is the registry's own dict and not a copy.         *)
(***************************************************************************)
\* get_all_devices: a new dict per device, of the fields a listing shows
get_all_devices ==
    [d \in DOMAIN devices |->
        [serial |-> devices[d].serial, type |-> devices[d].type,
         is_connected |-> devices[d].is_connected, last_seen |-> devices[d].last_seen]]

\* get_device_sensors: a copy of the device's dict of live readings, {} for a
\* device that is not registered
get_device_sensors(device_id) ==
    IF device_id \in DOMAIN devices THEN devices[device_id].sensors ELSE EmptyDict

\* get_device: self.devices.get(device_id), the registry's dict itself
GetDevice(d) ==
    /\ LoopFree
    /\ Len(handles) < MaxHandles
    /\ handles' = Append(handles, [op |-> "get_device", dev |-> d,
                                   live |-> d \in DOMAIN devices,
                                   got |-> Get(devices, d)])
    /\ UNCHANGED <<now, devices, wsConns, link, mqttPending, ready, tasks, arrivals, readings,
                   loopBusy, rules, notifVars, published, reply, issued, logged, histVars, trigLog, sinks,
                   bcastLog>>

GetAllDevices ==
    /\ LoopFree
    /\ Len(handles) < MaxHandles
    /\ handles' = Append(handles, [op |-> "get_all_devices", dev |-> NoDev,
                                   live |-> FALSE, got |-> <<get_all_devices>>])
    /\ UNCHANGED <<now, devices, wsConns, link, mqttPending, ready, tasks, arrivals, readings,
                   loopBusy, rules, notifVars, published, reply, issued, logged, histVars, trigLog, sinks,
                   bcastLog>>

GetDeviceSensors(d) ==
    /\ LoopFree
    /\ Len(handles) < MaxHandles
    /\ handles' = Append(handles, [op |-> "get_device_sensors", dev |-> d,
                                   live |-> FALSE, got |-> <<get_device_sensors(d)>>])
    /\ UNCHANGED <<now, devices, wsConns, link, mqttPending, ready, tasks, arrivals, readings,
                   loopBusy, rules, notifVars, published, reply, issued, logged, histVars, trigLog, sinks,
                   bcastLog>>

\* what the reader finds in the value it holds
View(h) == IF h.live THEN <<devices[h.dev]>> ELSE h.got

\* the value after the reader's assignment: a device's dict gets
\* is_connected = False, a listing the same in each of its dicts, and a dict
\* of readings is cleared
Mutated(h) ==
    IF h.op = "get_device" THEN [View(h)[1] EXCEPT !.is_connected = FALSE]
    ELSE IF h.op = "get_all_devices"
    THEN [d \in DOMAIN h.got[1] |-> [h.got[1][d] EXCEPT !.is_connected = FALSE]]
    ELSE EmptyDict

\* the reader assigns to the value it holds: the registry's own dict changes
\* in the registry, a copy changes in the reader's hands only
MutateHandle(i) ==
    /\ LoopFree
    /\ View(handles[i]) # <<>>
    /\ IF handles[i].live
       THEN /\ devices' = [devices EXCEPT ![handles[i].dev] = Mutated(handles[i])]
            /\ handles' = handles
       ELSE /\ handles' = [handles EXCEPT ![i].got = <<Mutated(handles[i])>>]
            /\ devices' = devices
    /\ UNCHANGED <<now, wsConns, link, mqttPending, ready, tasks, arrivals, readings,
                   loopBusy, rules, notifVars, published, reply, issued, logged, histVars, trigLog, sinks,
                   bcastLog>>

(***************************************************************************)
(* Initial states                                                          *)
(***************************************************************************)
\* a link whose thread runs loop_forever with its session up
RunningLink(d) ==
    [NewLink(Serial(d)) EXCEPT !.subscribers = SensorTopics(DeviceType),
                               !.subscribed = SensorTopics(DeviceType),
                               !.thread = "looping", !.client = TRUE,
                               !.connected = TRUE]

\* a row of the alarms table (models/database.py 58-79)
Rule(device_id, sensor_type, condition, threshold_min, threshold_max, cooldown_minutes, webhook_url, email) ==
    [device_id |-> device_id, sensor_type |-> sensor_type, condition |-> condition,
     threshold_min |-> threshold_min, threshold_max |-> threshold_max,
     enabled |-> TRUE, cooldown_minutes |-> cooldown_minutes,
     last_triggered |-> NoTime, webhook_url |-> webhook_url, email |-> email]

\* pH above 7.0, and pH out of 6.0 .. 7.0; hooks are the rules with a webhook
PhRules(hooks) ==
    [r \in {1, 2} |->
        IF r = 1
        THEN Rule("d1", "4.182", "above", <<>>, <<Num(7, 1)>>, 60,
                  IF 1 \in hooks THEN <<"hook1">> ELSE <<>>, FALSE)
        ELSE Rule("d1", "4.182", "out_of_range", <<Num(6, 1)>>, <<Num(7, 1)>>, 60,
                  IF 2 \in hooks THEN <<"hook2">> ELSE <<>>, FALSE)]

\* the state after construction, with the registered devices and their links,
\* the alarm rules and the settings given, and with the history events that
\* are on the Redis queue
InitQueued(devs, linkOf, rs, st, queue) ==
    /\ now = 0
    /\ devices = [d \in devs |-> NewDevice(Serial(d), DeviceType)]
    /\ wsConns = EmptyDict
    /\ link = linkOf
    /\ mqttPending = [d \in Devices |-> <<>>]
    /\ ready = <<>>
    /\ tasks = <<>>
    /\ arrivals = <<>>
    /\ readings = [d \in Devices |-> 0]
    /\ loopBusy = NoDev
    /\ rules = rs
    /\ breaker = [webhook_failures |-> EmptyDict, webhook_disabled_until |-> EmptyDict]
    /\ posts = EmptyDict
    /\ histQueue = queue
    /\ histStore = {}
    /\ flush = [pc |-> "idle", batch |-> <<>>, returned |-> <<>>]
    /\ accepted = Range(queue)
    /\ trigLog = {}
    /\ calls = <<>>
    /\ api = NoApiCall
    /\ settings = st
    /\ sinks = [w \in Sinks |-> [state |-> "free", dev |-> NoDev]]
    /\ bcastLog = [kind |-> "none", dev |-> NoDev, tried |-> {}, failed |-> {},
                   after |-> <<>>]
    /\ published = <<>>
    /\ reply = NoReply
    /\ handles = <<>>
    /\ logged = {}
    /\ issued = [d \in Devices |->
                    IF linkOf[d].connected THEN OnConnect(linkOf[d], NoConnect, 0)
                    ELSE NoConnect]

\* the same with an empty queue
InitWith(devs, linkOf, rs, st) == InitQueued(devs, linkOf, rs, st, <<>>)

NoSettings == [ALARM_WEBHOOK_URL |-> <<>>, EMAIL_WEBHOOK_URL |-> <<>>]

(***************************************************************************)
(* Spec: ingestion.  Two registered devices with running links and no      *)
(* alarm rule; messages arrive and their updates run on the event loop.    *)
(***************************************************************************)
Init ==
    InitWith(Devices, [d \in Devices |-> RunningLink(d)], EmptyDict, NoSettings)

\* what the two devices publish in this specification
IngestRaw == {Num(72, 1), Num(7001, 1)}

\* the steps of a sensor update that has no subscriber and no alarm rule
Pipeline ==
    \/ handle_mqtt_message
    \/ sensor_callback
    \/ \E t \in 1..Len(tasks) : HandleSensorUpdateStart(t)
    \/ \E t \in 1..Len(tasks) : HandleSensorUpdatePersisted(t)
    \/ \E t \in 1..Len(tasks) : HandleAlarmsChecked(t)
    \/ \E t \in 1..Len(tasks) : IOComplete(t)

Next ==
    \/ \E d \in Devices, raw \in IngestRaw : OnMessage(d, "4.182", raw)
    \/ \E d \in Devices : OnMessageCallback(d)
    \/ Pipeline
    \/ Tick

Spec == Init /\ [][Next]_vars

(***************************************************************************)
(* Properties of ingestion                                                 *)
(***************************************************************************)
\* the update of task has begun and not ended
InProgress(task) == task.pc \notin {"start", "done"}

\* C7: updates to the same device are serialized: no two updates of one
\* device are in progress at once, so all steps of one complete before any
\* step of the other.
C7_UpdatesSerialized ==
    \A t1, t2 \in 1..Len(tasks) :
        (t1 # t2 /\ tasks[t1].dev = tasks[t2].dev)
            => ~(InProgress(tasks[t1]) /\ InProgress(tasks[t2]))

\* the updates applied so far that came over device d's own link, in the
\* order they were applied
OwnUpdates(d) ==
    SelectSeq(tasks, LAMBDA task : task.at # NoTime /\ arrivals[task.msg].dev = d)

RECURSIVE Replay(_, _)
Replay(device, updates) ==
    IF updates = <<>> THEN device
    ELSE Replay(ApplyUpdate(device, Head(updates).sensor, Head(updates).raw,
                            Head(updates).at),
                Tail(updates))

\* C8: a device's live sensor map, last-seen time and connectivity flag are
\* what its own updates, applied in their order to the fresh record, give:
\* they do not depend on another device's updates or on how these interleave.
C8_DeviceIsolation ==
    \A d \in DOMAIN devices :
        devices[d] = Replay(NewDevice(devices[d].serial, devices[d].type), OwnUpdates(d))

\* both devices have applied updates, the other device's in between
C8_Witness ==
    \E t1, t2, t3 \in 1..Len(tasks) :
        /\ t1 < t2 /\ t2 < t3
        /\ tasks[t1].at # NoTime /\ tasks[t2].at # NoTime /\ tasks[t3].at # NoTime
        /\ tasks[t1].dev = "d1" /\ tasks[t2].dev = "d2" /\ tasks[t3].dev = "d1"
        /\ tasks[t2].raw # tasks[t3].raw
        /\ devices["d1"].last_seen > tasks[t2].at
        /\ devices["d1"].sensors # devices["d2"].sensors

\* the messages of device d and sensor s whose update has been applied
AppliedMsgs(d, s) ==
    {tasks[t].msg : t \in {u \in 1..Len(tasks) :
        /\ tasks[u].at # NoTime
        /\ arrivals[tasks[u].msg].dev = d
        /\ arrivals[tasks[u].msg].sensor = s}}

\* the messages that still have an update to be applied: handed to the loop
\* or about to be, or with a task that has not run yet
UnappliedMsgs(d, s) ==
    {m \in 1..Len(arrivals) :
        /\ arrivals[m].dev = d /\ arrivals[m].sensor = s
        /\ \/ \E i \in 1..Len(ready) :
                 ready[i].msg = m
                 /\ (ready[i].k \in {"handle", "callback"}
                     \/ (ready[i].k = "step" /\ tasks[ready[i].t].pc = "start"))
           \/ \E e \in Devices : mqttPending[e] # <<>> /\ mqttPending[e][1].msg = m}

Max(S) == CHOOSE x \in S : \A y \in S : y <= x

\* C9: for one device and sensor the readings are applied in arrival order:
\* no message's update is applied while an earlier message's is still to be
\* applied, and the live reading holds the decoded value of the last message
\* applied.
C9_ArrivalOrder ==
    \A d \in DOMAIN devices, s \in DOMAIN SENSOR_TYPES_AUTOMATIC :
        AppliedMsgs(d, s) # {} =>
            /\ \A m \in UnappliedMsgs(d, s) : m >= Max(AppliedMsgs(d, s))
            /\ s \in DOMAIN devices[d].sensors
            /\ devices[d].sensors[s].value =
                   handle_sensor_value(get_sensor_types_for_device(devices[d].type)[s],
                                       arrivals[Max(AppliedMsgs(d, s))].raw)

\* two messages of one device and sensor with different values have both been
\* applied completely; the live reading is the second one's
C9_Witness ==
    /\ Len(arrivals) = 2
    /\ arrivals[1].dev = "d1" /\ arrivals[2].dev = "d1"
    /\ arrivals[1].sensor = arrivals[2].sensor
    /\ arrivals[1].raw = Num(7001, 1) /\ arrivals[2].raw = Num(72, 1)
    /\ Len(tasks) = 4
    /\ \A t \in 1..Len(tasks) : tasks[t].pc = "done"
    /\ devices["d1"].sensors["4.182"].value = Num(72, 10)

(***************************************************************************)
(* SpecFanout: live subscribers.  One registered device with a pH alarm    *)
(* that has no webhook; WebSockets subscribe, die and are unregistered     *)
(* while updates are broadcast.                                            *)
(***************************************************************************)
OneLink(d) == [e \in Devices |-> IF e = d THEN RunningLink(e) ELSE NewLink(Serial(e))]

InitFanout ==
    InitWith({"d1"}, OneLink("d1"), [r \in {1} |-> PhRules({})[r]], NoSettings)

NextFanout ==
    \/ Len(arrivals) < MaxFanoutMsgs /\ OnMessage("d1", "4.182", Num(72, 1))
    \/ OnMessageCallback("d1")
    \/ Pipeline
    \/ \E w \in Sinks : Subscribe("d1", w)
    \/ \E w \in Sinks : SinkDies(w)
    \/ \E w \in Sinks : Unsubscribe(w)
    \/ \E t \in 1..Len(tasks) : HandleSensorUpdateNotified(t)
    \/ \E t \in 1..Len(tasks) : HandleDeviceLoaded(t)
    \/ \E t \in 1..Len(tasks) : HandleAlarmSent(t)
    \/ \E t \in 1..Len(tasks) : HandleHistoryQueued(t, TRUE)

SpecFanout == InitFanout /\ [][NextFanout]_vars

\* C10: after any broadcast pass, of a sensor update or of a triggered alarm,
\* every sink whose send raised is gone from the device's subscriber list,
\* every sink whose send did not raise is still in it, and every sink in the
\* list was attempted.  bcastLog holds the last pass that finished and the
\* list as the pass left it.
C10_FailedSinksPruned ==
    bcastLog.kind # "none" =>
        /\ bcastLog.failed \cap Range(bcastLog.after) = {}
        /\ (bcastLog.tried \ bcastLog.failed) \subseteq Range(bcastLog.after)
        /\ Range(bcastLog.after) \subseteq bcastLog.tried

(***************************************************************************)
(* SpecAlarm: alarm evaluation, dispatch and history.  One registered      *)
(* device with two pH rules, the second one with or without a webhook; the *)
(* batch writer flushes the history queue from time to time.               *)
(***************************************************************************)
InitAlarm ==
    \E hooks \in {{}, {2}} :
        InitWith({"d1"}, OneLink("d1"), PhRules(hooks), NoSettings)

NextAlarm ==
    \/ \E raw \in {Num(72, 1), Num(65, 1)} :
          Len(arrivals) < MaxAlarmMsgs /\ OnMessage("d1", "4.182", raw)
    \/ OnMessageCallback("d1")
    \/ Pipeline
    \/ \E t \in 1..Len(tasks) : HandleDeviceLoaded(t)
    \/ \E t \in 1..Len(tasks) : HandleGathered(t)
    \/ \E c \in 1..Len(calls), outcome \in {"2xx", "timeout"} : WebhookResponse(c, outcome)
    \/ \E t \in 1..Len(tasks), reachable \in BOOLEAN : HandleHistoryQueued(t, reachable)
    \/ FlushBegin
    \/ FlushPop
    \/ \E committed \in BOOLEAN : FlushWrite(committed)
    \/ FlushSleep
    \/ Tick

SpecAlarm == InitAlarm /\ [][NextAlarm]_vars

\* C4: for every triggered alarm all three consumers run, the webhook
\* dispatch, the alarm_triggered broadcast and the history enqueue, whatever
\* the outcome of the notifications, and this for every alarm the reading
\* triggered: an update that has ended has run the three for each of them.
C4_AllConsumersRun ==
    \A t \in 1..Len(tasks) :
        tasks[t].pc = "done" =>
            /\ tasks[t].triggered \subseteq tasks[t].dispatched
            /\ tasks[t].triggered \subseteq tasks[t].broadcast
            /\ tasks[t].triggered \subseteq tasks[t].queued

\* C3: every history event that enqueue accepted while the queue was
\* reachable is eventually persisted at least once, also when a flush's
\* database write fails: until it is persisted the event is still on the
\* queue or in the batch a flush holds.
C3_AcceptedEventsKept ==
    \A ev \in accepted :
        \/ ev \in histStore
        \/ ev \in Range(histQueue)
        \/ ev \in Range(flush.batch)

(***************************************************************************)
(* SpecCooldown: two readings above the threshold of one rule, while the   *)
(* batch writer flushes the history queue.                                 *)
(***************************************************************************)
InitCooldown ==
    InitWith({"d1"}, OneLink("d1"), [r \in {1} |-> PhRules({})[r]], NoSettings)

NextCooldown ==
    \/ Len(arrivals) < MaxCooldownMsgs /\ OnMessage("d1", "4.182", Num(72, 1))
    \/ OnMessageCallback("d1")
    \/ Pipeline
    \/ \E t \in 1..Len(tasks) : HandleDeviceLoaded(t)
    \/ \E t \in 1..Len(tasks) : HandleHistoryQueued(t, TRUE)
    \/ FlushBegin
    \/ FlushPop
    \/ FlushWrite(TRUE)
    \/ FlushSleep

SpecCooldown == InitCooldown /\ [][NextCooldown]_vars

Abs(x) == IF x < 0 THEN -x ELSE x

\* C1: of two readings that satisfy a rule within its cooldown at most one
\* triggers it, because a trigger sets the rule's last-triggered time before
\* any other evaluation: two triggers of one rule by different messages are
\* at least the cooldown apart.
C1_OneTriggerPerCooldown ==
    \A a, b \in trigLog :
        (a.rule = b.rule /\ a.msg # b.msg)
            => Abs(a.at - b.at) >= rules[a.rule].cooldown_minutes * 60

(***************************************************************************)
(* SpecNotify: the circuit breaker.  A rule with a webhook of its own is   *)
(* tested again and again through the test endpoint; each POST succeeds or *)
(* fails in one of the ways _send_webhook tells apart.                     *)
(***************************************************************************)
NoLinks == [d \in Devices |-> NewLink(Serial(d))]

InitNotify ==
    \E global \in {<<>>, <<"global">>} :
        InitWith({}, NoLinks, [r \in {1} |-> PhRules({1})[r]],
                 [ALARM_WEBHOOK_URL |-> global, EMAIL_WEBHOOK_URL |-> <<>>])

NextNotify ==
    \/ \E r \in DOMAIN rules : TestAlarm(r, Num(72, 10))
    \/ TestAlarmGathered
    \/ \E c \in 1..Len(calls), outcome \in {"2xx", "non2xx", "timeout", "exception"} :
          WebhookResponse(c, outcome)
    \/ Tick

SpecNotify == InitNotify /\ [][NextNotify]_vars

\* the deliveries to a URL that ended before event j of its log, in order
OutcomesBefore(log, j) == SelectSeq(SubSeq(log, 1, j - 1), LAMBDA e : e.e # "post")

\* the last MAX_FAILURES deliveries before event j all failed
FailedRunBefore(log, j) ==
    LET out == OutcomesBefore(log, j)
    IN /\ Len(out) >= MAX_FAILURES
       /\ \A i \in (Len(out) - MAX_FAILURES + 1)..Len(out) : out[i].e = "fail"

\* C2: after MAX_FAILURES consecutive failed deliveries to a URL the URL is
\* disabled: a dispatch in the RESET_TIMEOUT seconds that follow makes no
\* network call to it.  No POST to a URL starts within RESET_TIMEOUT seconds
\* of the last of five or more consecutive failures.
C2_NoPostWhileDisabled ==
    \A u \in DOMAIN posts :
        \A j \in 1..Len(posts[u]) :
            (posts[u][j].e = "post" /\ FailedRunBefore(posts[u], j))
                => LET out == OutcomesBefore(posts[u], j)
                   IN posts[u][j].at >= out[Len(out)].at + RESET_TIMEOUT

(***************************************************************************)
(* SpecLink: the life of the links.  Devices are added and removed; each   *)
(* link's thread creates its client, connects, loops, loses and regains    *)
(* its session, and is asked to stop.                                      *)
(***************************************************************************)
InitLink == InitWith({}, NoLinks, EmptyDict, NoSettings)

ThreadStep(d) ==
    \/ ThreadCreateClient(d)
    \/ \E ok \in BOOLEAN : ThreadConnect(d, ok)
    \/ Reconnect(d)
    \/ ThreadStopSeen(d)

NextLink ==
    \/ \E d \in Devices : AddDevice(d)
    \/ \E d \in Devices : ThreadStep(d)
    \/ \E d \in Devices : ConnectionLost(d)
    \/ \E d \in Devices : RemoveDeviceBegin(d)
    \/ \E d \in Devices : RemoveDeviceEnd(d)
    \/ \E d \in Devices, w \in Sinks : Subscribe(d, w)

SpecLink == InitLink /\ [][NextLink]_vars

\* every live thread goes on running, and a remove_device that can return does
SpecLinkLive ==
    /\ SpecLink
    /\ \A d \in Devices : WF_vars(ThreadStep(d)) /\ WF_vars(RemoveDeviceEnd(d))

\* the link's thread is alive and not asked to stop: it is about to connect,
\* or in loop_forever, which reconnects
Attempting(l) ==
    \/ l.thread \in {"started", "connecting"}
    \/ l.thread = "looping" /\ ~l.stopReq

\* C5: while a device is registered its link never stays disconnected for
\* good: after any connection failure, also a failed first connection attempt,
\* or loss of the connection, another connection attempt follows.  A
\* registered device whose link is down gets a link that is up or attempting
\* to connect, unless it is removed.
C5_LinkComesBack ==
    \A d \in Devices :
        (d \in DOMAIN devices /\ ~link[d].connected)
            ~> (link[d].connected \/ Attempting(link[d]) \/ d \notin DOMAIN devices)

\* C6: when remove_device has returned, the device's link is stopped,
\* whatever state its thread was in (also started with the client not yet
\* created), the registry holds no entry for the device and its subscriber
\* list is gone; the link is stopped before the registry entry is released.
C6_RemovedLinkStopped ==
    \A d \in Devices :
        (d \notin DOMAIN devices /\ loopBusy # d)
            => link[d].thread \in {"none", "exited"}

(***************************************************************************)
(* SpecCodec: the decoder.  One registered device; one message arrives for *)
(* any of its sensors, carrying any of the raw values below, and its       *)
(* update runs.                                                            *)
(***************************************************************************)
\* raw values of every shape json.loads gives the link: integers, floats and
\* strings, codes of both tables among them
CodecRaw ==
    {Num(72, 1), Num(650, 1), Num(725, 100), Num(7001, 1), Num(7527, 1),
     Num(19258, 1000), Num(1918, 100),
     Str("19.258"), Str("19.19"), Str("72"), Str("7001"), Str("abc")}

InitCodec == InitWith({"d1"}, OneLink("d1"), EmptyDict, NoSettings)

NextCodec ==
    \/ \E sensor \in SensorTopics(DeviceType), raw \in CodecRaw :
          Len(arrivals) < MaxCodecMsgs /\ OnMessage("d1", sensor, raw)
    \/ OnMessageCallback("d1")
    \/ Pipeline

SpecCodec == InitCodec /\ [][NextCodec]_vars

\* the raw value is an enumerated code: a string code, as a string or as the
\* number that prints so, or a numeric code as a number
IsCode(raw) ==
    \/ raw.k = "str" /\ raw.s \in DOMAIN StringCodes
    \/ raw.k = "num" /\ raw.d = 1 /\ raw.n \in DOMAIN NumericCodes
    \/ raw.k = "num" /\ raw.d # 1 /\ PyStr(raw) \in DOMAIN StringCodes

CodeLabel(raw) ==
    IF raw.k = "num" /\ raw.d = 1 THEN NumericCodes[raw.n] ELSE StringCodes[PyStr(raw)]

\* the tasks whose first step has decoded their raw value
Decoded ==
    {t \in 1..Len(tasks) :
        /\ tasks[t].at # NoTime
        /\ tasks[t].dev \in DOMAIN devices
        /\ tasks[t].sensor \in DOMAIN get_sensor_types_for_device(devices[tasks[t].dev].type)}

CoefficientOf(t) ==
    get_sensor_types_for_device(devices[tasks[t].dev].type)[tasks[t].sensor].coefficient

\* C19: for every schema entry and every raw value that is an enumerated
\* code, decode returns the mapped label, whatever the entry's coefficient
\* (absent, -1 or a scaling coefficient), and never a scaled number: the
\* update's value is the label, and the live reading of a sensor that only
\* codes were decoded for is a label.
C19_CodesBeforeScaling ==
    /\ \A t \in Decoded :
          IsCode(tasks[t].raw) => tasks[t].val = Str(CodeLabel(tasks[t].raw))
    /\ \A d \in DOMAIN devices :
          \A s \in DOMAIN devices[d].sensors :
             (\A t \in Decoded : (tasks[t].dev = d /\ tasks[t].sensor = s)
                                     => IsCode(tasks[t].raw))
                => IsLabel(devices[d].sensors[s].value)

\* the numeric code 7001 arrived for the pH sensor, whose coefficient is 10,
\* and was decoded
C19_Witness ==
    \E t \in Decoded :
        /\ tasks[t].raw = Num(7001, 1)
        /\ CoefficientOf(t) = <<10>>
        /\ tasks[t].val = Str("On")

\* x / c for a raw number x and a coefficient c
Scaled(raw, c) == Num(raw.n, raw.d * c)

Conditions == {"above", "below", "equals", "out_of_range"}

\* the last-triggered times: never, and the times whose 60-minute cooldown
\* ends at the clock's first, second and third value
LastTriggeredTimes ==
    {NoTime} \cup {k * TickStep - 3600 : k \in 0..(MaxTime + 1)}

EvalRules(condition, threshold_min, threshold_max, last_triggered) ==
    LET own == [Rule("d1", "4.182", condition, threshold_min, threshold_max, 60, <<>>,
                     FALSE) EXCEPT !.last_triggered = last_triggered]
    IN [r \in 1..4 |->
          CASE r = 1 -> own
            [] r = 2 -> [own EXCEPT !.enabled = FALSE]
            [] r = 3 -> [own EXCEPT !.sensor_type = "4.82"]
            [] r = 4 -> [own EXCEPT !.device_id = "d2"]]

InitEval ==
    \E condition \in Conditions, last_triggered \in LastTriggeredTimes,
       threshold_min \in {<<>>, <<Num(7, 1)>>}, threshold_max \in {<<>>, <<Num(72, 10)>>} :
        InitWith(Devices, [d \in Devices |-> RunningLink(d)],
                 EvalRules(condition, threshold_min, threshold_max, last_triggered),
                 NoSettings)

\* pH 6.9, 7.0, 7.1, 7.2 and 7.3
EvalRaw == {Num(n, 1) : n \in 69..73}

NextEval ==
    \/ \E raw \in EvalRaw : Len(arrivals) < MaxEvalMsgs /\ OnMessage("d1", "4.182", raw)
    \/ OnMessageCallback("d1")
    \/ Pipeline
    \/ \E t \in 1..Len(tasks) : HandleDeviceLoaded(t)
    \/ \E t \in 1..Len(tasks) : HandleHistoryQueued(t, TRUE)
    \/ Tick

SpecEval == InitEval /\ [][NextEval]_vars

\* the tasks whose check_alarm_conditions has returned
Evaluated == {t \in 1..Len(tasks) : tasks[t].evalAt # NoTime}

\* the rule is for the task's device and sensor and is enabled
Applies(rule, task) ==
    rule.enabled /\ rule.device_id = task.dev /\ rule.sensor_type = task.sensor

\* the thresholds the rule's condition kind needs are set
RequiredSet(rule) ==
    CASE rule.condition = "above" -> rule.threshold_max # <<>>
      [] rule.condition \in {"below", "equals"} -> rule.threshold_min # <<>>
      [] OTHER -> rule.threshold_min # <<>> /\ rule.threshold_max # <<>>

\* the rule's condition as section 4.4 of the spec states it
Holds(rule, v) ==
    CASE rule.condition = "above" -> Gt(v, rule.threshold_max[1])
      [] rule.condition = "below" -> Lt(v, rule.threshold_min[1])
      [] rule.condition = "equals" -> NumEq(v, rule.threshold_min[1])
      [] OTHER -> Lt(v, rule.threshold_min[1]) \/ Gt(v, rule.threshold_max[1])

OutOfCooldown(rule, t) ==
    rule.last_triggered = NoTime \/ t >= rule.last_triggered + rule.cooldown_minutes * 60

\* C11: an enabled rule of the evaluated device and sensor that is out of
\* cooldown and has its required thresholds set triggers exactly when its
\* condition holds (above: value > thresholdMax; below: value <
\* thresholdMin; equals: value = thresholdMin; out_of_range: value below
\* thresholdMin or above thresholdMax), so a value equal to a bound triggers
\* none of above, below and out_of_range; a disabled rule and a rule of
\* another sensor or device never trigger.
C11_TriggersExactlyOnCondition ==
    \A t \in Evaluated : \A r \in DOMAIN rules :
        LET task == tasks[t]
            rule == rules[r]
        IN /\ (Applies(rule, task) /\ RequiredSet(rule)
                  /\ OutOfCooldown(rule, task.evalAt))
                 => (r \in task.triggered <=> Holds(rule, AlarmValue(task.val)))
           /\ ~Applies(rule, task) => r \notin task.triggered

\* the reading 7.2 was evaluated against the out_of_range rule 7.0 .. 7.2,
\* out of cooldown, and did not trigger it
C11_Witness ==
    \E t \in Evaluated :
        /\ rules[1].condition = "out_of_range" /\ RequiredSet(rules[1])
        /\ OutOfCooldown(rules[1], tasks[t].evalAt)
        /\ tasks[t].val = Num(72, 10)
        /\ tasks[t].triggered = {}

\* C12: a rule last triggered at T with cooldown c is skipped by every
\* evaluation at a time before T + c even if its condition holds, and
\* triggers when its condition holds at every time from T + c on; a rule
\* that has never triggered is never in cooldown.
C12_CooldownWindow ==
    \A t \in Evaluated : \A r \in DOMAIN rules :
        LET task == tasks[t]
            rule == rules[r]
            ends == rule.last_triggered + rule.cooldown_minutes * 60
        IN (Applies(rule, task) /\ RequiredSet(rule) /\ Holds(rule, AlarmValue(task.val)))
             => /\ (rule.last_triggered # NoTime /\ task.evalAt < ends)
                      => r \notin task.triggered
                /\ (rule.last_triggered # NoTime /\ task.evalAt >= ends)
                      => r \in task.triggered
                /\ rule.last_triggered = NoTime => r \in task.triggered

\* a reading above the threshold was evaluated at the very second the
\* rule's cooldown ended, after the clock had advanced, and triggered it
C12_Witness ==
    \E t \in Evaluated :
        /\ rules[1].condition = "above" /\ RequiredSet(rules[1])
        /\ rules[1].last_triggered # NoTime
        /\ tasks[t].evalAt = rules[1].last_triggered + rules[1].cooldown_minutes * 60
        /\ tasks[t].evalAt > 0
        /\ 1 \in tasks[t].triggered

(***************************************************************************)
(* SpecSeverity: severity scoring.  A rule of any condition kind, with     *)
(* thresholds among 0, 7, 10, 100 and -10 or unset and no webhook, is      *)
(* tested through the test endpoint with the values below.                 *)
(***************************************************************************)
SeverityThresholds ==
    {<<>>, <<Num(0, 1)>>, <<Num(7, 1)>>, <<Num(10, 1)>>, <<Num(100, 1)>>, <<Num(-10, 1)>>}

SeverityValues ==
    {Num(-15, 1), Num(-5, 1), Num(0, 1), Num(5, 1), Num(8, 1), Num(11, 1), Num(12, 1),
     Num(15, 1), Num(77, 10), Num(105, 1), Num(120, 1), Num(125, 1)}

InitSeverity ==
    \E condition \in Conditions, threshold_min, threshold_max \in SeverityThresholds :
        InitWith({"d1"}, NoLinks,
                 [r \in {1} |-> Rule("d1", "4.182", condition, threshold_min,
                                     threshold_max, 60, <<>>, FALSE)],
                 NoSettings)

NextSeverity == \E r \in DOMAIN rules, test_value \in SeverityValues : TestAlarm(r, test_value)

SpecSeverity == InitSeverity /\ [][NextSeverity]_vars

\* the test endpoint has computed a severity
Scored == api.rule # NoRule

\* the rule has the thresholds its kind needs, the lower one not above the
\* upper one
WellFormed(rule) ==
    /\ RequiredSet(rule)
    /\ rule.condition = "out_of_range"
          => ~Gt(rule.threshold_min[1], rule.threshold_max[1])

\* the divisor of the deviation, section 4.5 of the spec
Divisor(rule) ==
    CASE rule.condition = "above" -> rule.threshold_max[1]
      [] rule.condition = "below" -> rule.threshold_min[1]
      [] OTHER -> Sub(rule.threshold_max[1], rule.threshold_min[1])

\* the deviation of section 4.5: for out_of_range the distance outside the
\* nearer bound over the size of the range
Deviation(rule, v) ==
    CASE rule.condition = "above" -> Quot(Sub(v, rule.threshold_max[1]), Divisor(rule))
      [] rule.condition = "below" -> Quot(Sub(rule.threshold_min[1], v), Divisor(rule))
      [] OTHER ->
            Quot(IF Lt(v, rule.threshold_min[1]) THEN Sub(rule.threshold_min[1], v)
                 ELSE IF Gt(v, rule.threshold_max[1]) THEN Sub(v, rule.threshold_max[1])
                 ELSE Num(0, 1),
                 Divisor(rule))

\* C13: severity is a function of the rule and the value and equals the
\* rule of section 4.5 for every condition kind and every threshold value,
\* also when one of the two bounds of an out_of_range rule is 0: deviation
\* above 0.2 is critical, above 0.1 warning, otherwise info, and an equals
\* rule is always info.  (The case of a divisor 0 is C14's.)
C13_SeverityAsSpecified ==
    (Scored /\ WellFormed(rules[api.rule]))
        => LET rule == rules[api.rule]
           IN IF rule.condition = "equals" THEN api.severity = "info"
              ELSE Divisor(rule).n # 0
                     => api.severity = Grade(Deviation(rule, api.value[1]))

\* C14: severity computation never faults: for every rule and value it
\* gives info, warning or critical, and info whenever the divisor of the
\* deviation would be zero (thresholdMax 0, thresholdMin 0, or an
\* out_of_range rule whose thresholdMin equals its thresholdMax).
C14_SeverityNeverFaults ==
    Scored
        => /\ api.severity \in {"info", "warning", "critical"}
           /\ (WellFormed(rules[api.rule]) /\ rules[api.rule].condition # "equals"
                  /\ Divisor(rules[api.rule]).n = 0)
                 => api.severity = "info"

(***************************************************************************)
(* The circuit breaker and the result map, under SpecNotify                *)
(***************************************************************************)
\* the outcomes of the deliveries to a URL that have ended, in order
Outcomes(log) == SelectSeq(log, LAMBDA e : e.e # "post")

\* the number of failures at the end of a sequence of outcomes, after the
\* last success
RECURSIVE TrailingFailures(_)
TrailingFailures(out) ==
    IF out = <<>> \/ out[Len(out)].e # "fail" THEN 0
    ELSE 1 + TrailingFailures(SubSeq(out, 1, Len(out) - 1))

\* webhook_failures.get(url, 0)
FailureCount(url) ==
    IF url \in DOMAIN breaker.webhook_failures THEN breaker.webhook_failures[url] ELSE 0

C16_CounterBelowMax ==
    \A u \in DOMAIN breaker.webhook_failures :
        breaker.webhook_failures[u] < MAX_FAILURES

\* the test endpoint's call of send_alarm_notification has ended, and not in
\* the computation of the severity
Dispatched == api.result # "" /\ api.severity \notin Faults

\* C17: the result map of every dispatch has one entry per configured
\* target (per-rule webhook, global webhook, email relay); a target whose
\* circuit was open at dispatch time was not called and has a failure entry.
C17_EntryPerConfiguredTarget ==
    Dispatched
        => /\ api.result = "returned"
           /\ DOMAIN api.results = api.configured
           /\ \A ty \in api.configured \ api.attempted : api.results[ty] = "failure"

\* C18: send_alarm_notification never raises to its caller because of a
\* delivery outcome: whatever the outcomes of the targets (success, non-2xx,
\* timeout, exception), it returns a result map with a success or failure
\* entry under the name of each target attempted.
C18_DispatchNeverRaises ==
    Dispatched
        => /\ api.result # "raised"
           /\ DOMAIN api.results = api.attempted
           /\ \A ty \in api.attempted : api.results[ty] \in {"success", "failure"}

(***************************************************************************)
(* SpecSelect: select writes.  One registered device, whose link loses and *)
(* regains its session; one message of the device arrives; select values   *)
(* are written through the endpoint, for registered and unregistered       *)
(* devices, writable and readable entries, valid and invalid values.       *)
(***************************************************************************)
SelectIds == {"4.2", "5.3", "4.182"}

SelectValues == {Str("7.2"), Str("9.9"), Str("0.5x"), Str("On"), Str("abc")}

InitSelect == InitWith({"d1"}, OneLink("d1"), EmptyDict, NoSettings)

NextSelect ==
    \/ Len(arrivals) < MaxSelectMsgs /\ OnMessage("d1", "4.182", Num(72, 1))
    \/ OnMessageCallback("d1")
    \/ Pipeline
    \/ ConnectionLost("d1")
    \/ Reconnect("d1")
    \/ \E d \in Devices, sensor_type \in SelectIds, value \in SelectValues :
          UpdateSelectSensor(d, sensor_type, value)

SpecSelect == InitSelect /\ [][NextSelect]_vars

\* the last call was a select write that passed the endpoint's checks
WriteReached ==
    reply.op = "update_select_sensor" /\ reply.status \in {204, 500}

\* the schema entry the last select write names
WrittenConfig ==
    get_sensor_types_for_device(devices[reply.device_id].type)[reply.sensor_type]

\* the raw integers a device reports for its numeric select entries
RawRange == 1..100

\* C21: for a writable select entry with a coefficient c other than None and
\* -1, and a raw number x whose decoded value is the display value written
\* (a value of the option set), the value encoded for the device is x
\* again: encode(decode(x)) = x.
C21_EncodeInvertsDecode ==
    (WriteReached /\ WrittenConfig.coefficient \notin {<<>>, <<-1>>})
        => \A x \in RawRange :
              LET decoded == handle_sensor_value(WrittenConfig, Num(x, 1))
              IN (IsNumeric(decoded) /\ NumEq(decoded, PyFloat(reply.value)))
                    => reply.publish = <<ToString(x)>>

\* the display value of select write r is not among the declared options of
\* the entry it names, as a string or as a number
OutsideOptions(r) ==
    /\ r.op = "update_select_sensor"
    /\ r.device_id \in DOMAIN devices
    /\ r.sensor_type \in DOMAIN get_sensor_types_for_device(devices[r.device_id].type)
    /\ LET cfg == get_sensor_types_for_device(devices[r.device_id].type)[r.sensor_type]
       IN /\ cfg.entity_type = "select"
          /\ r.value \notin cfg.options
          /\ ~(\E o \in cfg.options :
                  o.k = "num" /\ CanFloat(r.value) /\ NumEq(o, PyFloat(r.value)))

\* C23: a select write whose display value is not in the declared option
\* set of the entry is rejected: it is answered with an error, nothing is
\* handed to publish and nothing is published, and the registry and the
\* links are left as they were.
C23_InvalidOptionRejected ==
    [][(reply' # reply /\ OutsideOptions(reply'))
          => /\ reply'.status \notin {204, 500}
             /\ reply'.publish = <<>> /\ ~reply'.sent
             /\ published' = published
             /\ devices' = devices /\ link' = link]_vars

\* a write of "On", which the inverse table of the family holds but the
\* options of the pH production rate do not, was answered with 400 while the
\* device was shown connected and its session was up
C23_Witness ==
    /\ reply.op = "update_select_sensor"
    /\ reply.device_id = "d1" /\ reply.sensor_type = "5.3" /\ reply.value = Str("On")
    /\ devices["d1"].is_connected /\ Publishes(link["d1"])
    /\ reply.status = 400 /\ reply.detail = "Invalid value"

\* C24: a select write reports success only if the value was published on
\* the device's link; with the session down at the time of the write it
\* fails and publishes nothing, also while the device's is_connected flag is
\* still true.
C24_SuccessMeansPublished ==
    (reply.op = "update_select_sensor" /\ reply.status = 204) => reply.sent

(***************************************************************************)
(* SpecDecode: the decoder's failures.  One registered device; one message *)
(* arrives for any of its sensors, carrying a value float() converts, one  *)
(* it does not, null, or an integer beyond the range of a float; its       *)
(* update runs.                                                            *)
(***************************************************************************)
DecodeRaw == {Num(72, 1), Num(725, 100), Str("72"), Str("abc"), None, Huge}

NextDecode ==
    \/ \E sensor \in SensorTopics(DeviceType), raw \in DecodeRaw :
          Len(arrivals) < MaxDecodeMsgs /\ OnMessage("d1", sensor, raw)
    \/ OnMessageCallback("d1")
    \/ Pipeline

SpecDecode == InitCodec /\ [][NextDecode]_vars

\* C22: decode never raises, for any raw value and schema entry: with a
\* declared coefficient and a raw value that cannot be converted the raw
\* value is returned unmodified, and the update of the message goes on: its
\* reading becomes the sensor's live reading and is saved.
C22_DecodeNeverRaises ==
    \A t \in Decoded :
        /\ ~Raises(tasks[t].val)
        /\ (CoefficientOf(t) \notin {<<>>, <<-1>>} /\ tasks[t].raw.k # "num"
              /\ ~CanFloat(tasks[t].raw))
              => tasks[t].val = tasks[t].raw
        /\ tasks[t].sensor \in DOMAIN devices[tasks[t].dev].sensors
        /\ tasks[t].pc = "done" => readings[tasks[t].dev] >= 1

(***************************************************************************)
(* SpecRegistry: the registry and its readers.  A device is added, and     *)
(* added again; its link connects, loses and regains its session; a        *)
(* message of the device arrives and its update runs; the clock advances;  *)
(* readers take snapshots and assign to what they were given.              *)
(***************************************************************************)
NextRegistry ==
    \/ AddDevice("d1")
    \/ ThreadCreateClient("d1")
    \/ \E ok \in BOOLEAN : ThreadConnect("d1", ok)
    \/ ConnectionLost("d1")
    \/ Reconnect("d1")
    \/ Len(arrivals) < MaxRegistryMsgs /\ OnMessage("d1", "4.182", Num(72, 1))
    \/ OnMessageCallback("d1")
    \/ Pipeline
    \/ Tick
    \/ GetDevice("d1")
    \/ GetAllDevices
    \/ GetDeviceSensors("d1")
    \/ \E i \in 1..Len(handles) : MutateHandle(i)

SpecRegistry == InitLink /\ [][NextRegistry]_vars

\* C25: add_device for a device id that is registered returns False and
\* leaves the registry as it was: the device's entry with its live readings,
\* its link and the link's subscriptions, its WebSockets; no second link is
\* started.
C25_AddRegisteredIsNoOp ==
    [][\A d \in Devices :
          (d \in DOMAIN devices /\ AddDevice(d))
             => /\ reply' = AddReply(d, FALSE)
                /\ devices' = devices
                /\ link' = link
                /\ wsConns' = wsConns]_vars

\* add_device was refused for d1 while d1 had a live reading and its link
\* was in loop_forever with its session up
C25_Witness ==
    /\ reply = AddReply("d1", FALSE)
    /\ "d1" \in DOMAIN devices
    /\ devices["d1"].sensors # EmptyDict
    /\ link["d1"].thread = "looping" /\ link["d1"].connected

\* nothing of device d is on its way through the link or the event loop
Quiescent(d) ==
    /\ mqttPending[d] = <<>>
    /\ \A i \in 1..Len(ready) : ready[i].dev \notin {d, Serial(d)}
    /\ \A t \in 1..Len(tasks) : tasks[t].dev = d => tasks[t].pc = "done"

\* the time of the last update applied for device d, NoTime if there is none
LastMessageAt(d) ==
    Max({NoTime} \cup {tasks[t].at : t \in {u \in 1..Len(tasks) : tasks[u].dev = d}})

\* C26: while the link of a registered device is down, and nothing of the
\* device is in flight, a snapshot shows the device as disconnected, with
\* last_seen at the time of its last message.
C26_DownShowsDisconnected ==
    \A d \in DOMAIN devices :
        (Quiescent(d) /\ ~link[d].connected)
            => /\ ~get_all_devices[d].is_connected
               /\ get_all_devices[d].last_seen = LastMessageAt(d)

\* C27: readers hold copies.  A value a reader was given changes only by
\* the reader's own assignment, never by a step of the registry, and the
\* reader's assignment changes nothing in the registry.
C27_ReadersHoldCopies ==
    [][IF \E i \in 1..Len(handles) : MutateHandle(i)
       THEN devices' = devices
       ELSE \A i \in 1..Len(handles) : View(handles[i])' = View(handles[i])]_vars

\* the triggered alarms of task t whose create_alarm_history was called
Enqueuing(t) == tasks[t].broadcast

\* C28: enqueue never raises to its caller, also with Redis unreachable:
\* for every triggered alarm whose create_alarm_history was called the call
\* is still awaiting its lpush or has returned, and once it has returned the
\* update has gone on to the next alarm the reading triggered.
C28_EnqueueNeverRaises ==
    \A t \in 1..Len(tasks) :
        \A r \in Enqueuing(t) :
            /\ \/ r \in tasks[t].queued
               \/ tasks[t].pc = "enqueue" /\ tasks[t].hist # <<>>
                     /\ tasks[t].hist[1].alarm_id = r
            /\ r \in tasks[t].queued
                  => \A later \in tasks[t].triggered :
                        later > r => \E n \in tasks[t].dispatched : r < n /\ n <= later

\* with Redis unreachable the enqueue of rule 1's event returned, without the
\* event on the queue, and the update went on to dispatch rule 2
C28_Witness ==
    \E t \in 1..Len(tasks) :
        /\ 1 \in tasks[t].queued
        /\ \A ev \in accepted : ~(ev.t = t /\ ev.alarm_id = 1)
        /\ 2 \in tasks[t].triggered
        /\ 2 \in tasks[t].dispatched

(***************************************************************************)
(* SpecFlush: the batch writer.  The queue holds up to MaxQueued history   *)
(* events of rule 1, enqueued in the order of their numbers; the periodic  *)
(* task runs pass after pass, and a pass's commit succeeds or fails.       *)
(***************************************************************************)
\* the history event of the i-th reading that triggered rule 1
QueuedEvent(i) ==
    [alarm_id |-> 1, device_id |-> "d1", triggered_at |-> 0, msg |-> i, t |-> i]

InitFlush ==
    \E n \in 0..MaxQueued :
        InitQueued({"d1"}, OneLink("d1"), [r \in {1} |-> PhRules({})[r]], NoSettings,
                   [i \in 1..n |-> QueuedEvent(i)])

NextFlush ==
    \/ FlushBegin
    \/ FlushPop
    \/ \E committed \in BOOLEAN : FlushWrite(committed)
    \/ FlushSleep

SpecFlush == InitFlush /\ [][NextFlush]_vars

\* the events are in the order they were enqueued in
InOrder(q) == \A i, j \in 1..Len(q) : i < j => q[i].msg < q[j].msg

\* C29: one flush removes at most 100 events, oldest first; the number it
\* returns is the number of events it removed and the number of rows it
\* added to the store; on an empty queue it returns 0 and writes nothing.
C29_FlushBounded ==
    [][/\ Len(flush'.batch) <= BATCH_SIZE
       /\ InOrder(flush'.batch \o histQueue')
       /\ (flush.pc = "writing" /\ flush'.pc = "returned")
             => /\ flush'.returned = <<Len(flush.batch)>>
                /\ histStore' = histStore \cup Range(flush.batch)
                /\ Cardinality(histStore') = Cardinality(histStore) + Len(flush.batch)
       /\ (flush.pc = "popping" /\ flush.batch = <<>> /\ histQueue = <<>>)
             => /\ flush'.pc = "returned" /\ flush'.returned = <<0>>
                /\ histStore' = histStore
       /\ (flush'.pc = "returned" /\ flush.pc # "returned")
             => flush.pc = IF flush'.returned = <<0>> THEN "popping" ELSE "writing"]_vars

\* a pass returned 100 with events left on the queue and 100 rows stored
C29_Witness ==
    /\ flush.pc = "returned" /\ flush.returned = <<BATCH_SIZE>>
    /\ histQueue # <<>>
    /\ Cardinality(histStore) = BATCH_SIZE

(***************************************************************************)
(* Alarm rules API: POST /devices/{id}/alarms and PUT /alarms/{id}         *)
(* (api/v1/alarms.py) with the request schemas of models/schemas.py.  A    *)
(* create body is parsed as AlarmCreate, whose fields are validated in the *)
(* order they are declared: condition, threshold_min, threshold_max.  A    *)
(* threshold of a body is <<>> when the body leaves the field out; a       *)
(* threshold of a patch is <<>> when the patch sets the field to null.     *)
(***************************************************************************)
\* values.get(name): None for a field that is not among the validated ones
Field(values, name) == IF name \in DOMAIN values THEN values[name] ELSE None

\* AlarmBase.validate_thresholds(cls, v, values): TRUE when it returns v,
\* FALSE when it raises ValueError.  values holds the fields validated before
\* the one under validation, never that field itself.
validate_thresholds(values) ==
    LET condition == values["condition"]
    IN  /\ ~(condition = "above" /\ Field(values, "threshold_max") = None)
        /\ ~(condition = "below" /\ Field(values, "threshold_min") = None)
        /\ ~(condition = "out_of_range"
                /\ (Field(values, "threshold_min") = None
                       \/ Field(values, "threshold_max") = None))

\* the fields of a body, validated one after the other: a field the body
\* leaves out takes its default None without the validator being called, a
\* field it gives is passed to the validator and is added to values only when
\* the validator returned.
ParseAlarmCreate(body) ==
    LET v0 == [sensor_type |-> body.sensor_type, condition |-> body.condition]
        minOk == body.threshold_min = <<>> \/ validate_thresholds(v0)
        v1 == IF body.threshold_min = <<>> THEN Put(v0, "threshold_min", None)
              ELSE IF minOk THEN Put(v0, "threshold_min", body.threshold_min[1])
              ELSE v0
        maxOk == body.threshold_max = <<>> \/ validate_thresholds(v1)
    IN  minOk /\ maxOk

\* create_alarm, lines 33-77: the body that does not parse is answered 422 by
\* the framework before the handler runs; then the device and the sensor type
\* are looked up, the row is added and committed.  The response is built from
\* the committed row by AlarmResponse.from_orm, which passes the row through
\* the validator again or fails for want of orm_mode, depending on the
\* pydantic release installed: built tells whether it succeeded.
CreateAlarm(device_id, body, built) ==
    /\ Cardinality(DOMAIN rules) < MaxStoredRules
    /\ LET status == IF ~ParseAlarmCreate(body) THEN 422
                     ELSE IF device_id \notin DOMAIN devices THEN 404
                     ELSE IF body.sensor_type
                                \notin DOMAIN get_sensor_types_for_device(DeviceType)
                          THEN 400
                     ELSE IF built THEN 201 ELSE 500
           stored == status \in {201, 500}
           id == Cardinality(DOMAIN rules) + 1
       IN /\ rules' = IF stored
                      THEN Put(rules, id,
                               Rule(device_id, body.sensor_type, body.condition,
                                    body.threshold_min, body.threshold_max, 60, <<>>, FALSE))
                      ELSE rules
          /\ reply' = [op |-> "create_alarm", device_id |-> device_id, body |-> body,
                       status |-> status, stored |-> stored]
    /\ UNCHANGED <<now, devices, wsConns, link, mqttPending, ready, tasks, arrivals, readings,
                   loopBusy, notifVars, published, handles, issued, logged, histVars, trigLog, sinks, bcastLog>>

\* update_alarm, lines 150-176: every field the patch sets is assigned to
\* the row, which is committed; AlarmUpdate has no validator
UpdateAlarm(alarm_id, patch) ==
    /\ LET found == alarm_id \in DOMAIN rules
       IN /\ rules' = IF found
                      THEN [rules EXCEPT ![alarm_id] =
                               [f \in DOMAIN @ |-> IF f \in DOMAIN patch THEN patch[f] ELSE @[f]]]
                      ELSE rules
          /\ reply' = [op |-> "update_alarm", alarm_id |-> alarm_id, patch |-> patch,
                       status |-> IF found THEN 200 ELSE 404, stored |-> found]
    /\ UNCHANGED <<now, devices, wsConns, link, mqttPending, ready, tasks, arrivals, readings,
                   loopBusy, notifVars, published, handles, issued, logged, histVars, trigLog, sinks, bcastLog>>

(***************************************************************************)
(* SpecRules: one registered device and no rule; rules are created and     *)
(* updated through the API.                                                *)
(***************************************************************************)
\* the thresholds requests give: none, 6.0 or 8.0
Thresholds == {<<>>, <<Num(6, 1)>>, <<Num(8, 1)>>}

CreateBodies ==
    [sensor_type : {"4.182", "9.99"}, condition : Conditions,
     threshold_min : Thresholds, threshold_max : Thresholds]

\* patches that set one field
Patches ==
    {[condition |-> c] : c \in Conditions}
        \cup {[threshold_min |-> v] : v \in Thresholds}
        \cup {[threshold_max |-> v] : v \in Thresholds}

InitRules == InitWith({"d1"}, OneLink("d1"), EmptyDict, NoSettings)

NextRules ==
    \/ \E device_id \in Devices, body \in CreateBodies, built \in BOOLEAN :
          CreateAlarm(device_id, body, built)
    \/ \E alarm_id \in 1..MaxStoredRules, patch \in Patches : UpdateAlarm(alarm_id, patch)

SpecRules == InitRules /\ [][NextRules]_vars

\* the invariant of the rules: the threshold the condition requires is there,
\* and min < max when both are
ThresholdsValid(condition, threshold_min, threshold_max) ==
    /\ condition = "above" => threshold_max # <<>>
    /\ condition \in {"below", "equals"} => threshold_min # <<>>
    /\ condition = "out_of_range" => threshold_min # <<>> /\ threshold_max # <<>>
    /\ (threshold_min # <<>> /\ threshold_max # <<>>) => Lt(threshold_min[1], threshold_max[1])

\* C30: after any creates and updates every stored rule has the thresholds
\* its condition requires, with min < max when both are there; a request that
\* would break this is rejected and stores nothing, and a create request
\* that satisfies it, for a device and a sensor type that exist, is stored.
C30_StoredRulesValid ==
    [][/\ \A r \in DOMAIN rules' :
             ThresholdsValid(rules'[r].condition, rules'[r].threshold_min,
                             rules'[r].threshold_max)
       /\ (reply' # reply /\ reply'.op = "create_alarm"
              /\ reply'.device_id \in DOMAIN devices
              /\ reply'.body.sensor_type \in DOMAIN get_sensor_types_for_device(DeviceType))
             => (reply'.stored <=> ThresholdsValid(reply'.body.condition,
                                                   reply'.body.threshold_min,
                                                   reply'.body.threshold_max))]_vars

\* C31: a live reading whose decoded value is an enumeration label carries
\* no unit: its formatted string is the label alone and its unit field is
\* empty, also when the schema entry declares a unit; every other live
\* reading of an entry that declares a unit has the unit appended.
C31_LabelsCarryNoUnit ==
    \A d \in DOMAIN devices :
        \A s \in DOMAIN devices[d].sensors :
            LET reading == devices[d].sensors[s]
                declared == get_sensor_types_for_device(devices[d].type)[s].unit_of_measurement
            IN /\ IsLabel(reading.value)
                     => reading.formatted_value = <<reading.value>> /\ reading.unit = <<>>
               /\ (~IsLabel(reading.value) /\ declared # <<>>)
                     => reading.formatted_value = <<reading.value, declared[1]>>

(***************************************************************************)
(* SpecSubscribe: the links' sessions.  Devices are added and removed;     *)
(* the broker accepts or refuses a connection attempt, and a session that  *)
(* is up can be lost.                                                      *)
(***************************************************************************)
\* CONNACK return codes other than 0: bad credentials
RefusedCodes == {4}

NextSubscribe ==
    \/ \E d \in Devices : AddDevice(d)
    \/ \E d \in Devices : ThreadStep(d)
    \/ \E d \in Devices : ConnectionLost(d)
    \/ \E d \in Devices, rc \in RefusedCodes : ConnectRefused(d, rc)
    \/ \E d \in Devices : RemoveDeviceBegin(d)
    \/ \E d \in Devices : RemoveDeviceEnd(d)

SpecSubscribe == InitLink /\ [][NextSubscribe]_vars

\* what entering Connected sends for a topic: the subscribe to its value
\* topic, then the request for its current value
SubscribeThenGet(topic) ==
    <<[op |-> "subscribe", topic |-> <<"v", topic>>],
      [op |-> "publish", topic |-> <<"g", topic>>]>>

\* C32: on every step on which a link enters Connected, at its first connect
\* and at every reconnect, it sends for each readable sensor topic of its
\* device, all registered before the link was up, a subscribe to the value
\* topic followed by a get request on the g/ topic; on a connect the broker
\* refuses it sends nothing and the session stays down.
C32_SubscribesOnConnect ==
    [][\A d \in Devices :
          /\ (link'[d].connected /\ ~link[d].connected)
                => /\ issued'[d].rc = <<0>>
                   /\ link[d].subscribers = SensorTopics(DeviceType)
                   /\ DOMAIN issued'[d].cmds = SensorTopics(DeviceType)
                   /\ \A topic \in SensorTopics(DeviceType) :
                         issued'[d].cmds[topic] = SubscribeThenGet(topic)
                   /\ link'[d].subscribed = SensorTopics(DeviceType)
          /\ (issued'[d] # issued[d] /\ issued'[d].rc \notin {<<>>, <<0>>})
                => /\ issued'[d].cmds = EmptyDict
                   /\ ~link'[d].connected
                   /\ link'[d].subscribed = link[d].subscribed]_vars

\* the link of d1 is in Connected for the second time at least, after a
\* lost session, and has sent the subscribe and the get of the pH topic again
C32_Witness ==
    /\ link["d1"].connected
    /\ issued["d1"].entries = MaxEntries
    /\ issued["d1"].cmds["4.182"] = SubscribeThenGet("4.182")

(***************************************************************************)
(* SpecDrop: device d1 with its link up, the rule on its pH sensor and     *)
(* WebSockets that subscribe.  The broker delivers messages the link       *)
(* accepts and messages it does not: payloads that are malformed, and      *)
(* topics that are no sensor of the device.                                *)
(***************************************************************************)
\* a sensor of the device and an id its schema does not know
DropTopics == {"4.182", "9.99"}

DropPayloads == {Object(Num(72, 1)), NoField, Scalar, NotJson}

NextDrop ==
    \/ Len(arrivals) < MaxDropMsgs /\ OnMessage("d1", "4.182", Num(72, 1))
    \/ \E topic \in DropTopics, payload \in DropPayloads : OnMessageDrop("d1", topic, payload)
    \/ OnMessageCallback("d1")
    \/ Pipeline
    \/ \E w \in Sinks : Subscribe("d1", w)
    \/ \E t \in 1..Len(tasks) : HandleSensorUpdateNotified(t)
    \/ \E t \in 1..Len(tasks) : HandleDeviceLoaded(t)
    \/ \E t \in 1..Len(tasks) : HandleAlarmSent(t)
    \/ \E t \in 1..Len(tasks) : HandleHistoryQueued(t, TRUE)

SpecDrop == InitFanout /\ [][NextDrop]_vars

\* C33: a step on which _on_message drops a message, for a malformed
\* payload or an unknown sensor id, changes no device record and no live
\* reading, hands nothing to the event loop, so that no update, alarm
\* evaluation or broadcast comes of it, and leaves the link as it was,
\* connected and ready for the next message.
C33_DroppedChangesNothing ==
    [][logged' # logged
          => /\ devices' = devices
             /\ ready' = ready /\ tasks' = tasks /\ mqttPending' = mqttPending
             /\ arrivals' = arrivals /\ readings' = readings
             /\ trigLog' = trigLog /\ bcastLog' = bcastLog
             /\ link' = link
             /\ link'["d1"].connected /\ link'["d1"].thread = "looping"]_vars

\* a message was dropped before any was accepted, and a message that came
\* after it has been applied, evaluated and broadcast
C33_Witness ==
    /\ \E e \in logged : e.after = 0 /\ e.level = "error"
    /\ \E e \in logged : e.after = 0 /\ e.level = "warning"
    /\ "4.182" \in DOMAIN devices["d1"].sensors
    /\ trigLog # {}
    /\ bcastLog.kind # "none"

(***************************************************************************)
(* SpecStale: device d1 with the rule on its pH sensor; two pH messages    *)
(* arrive, each 7.2 or 6.5, and their updates run on the event loop.       *)
(***************************************************************************)
NextStale ==
    \/ \E raw \in {Num(72, 1), Num(65, 1)} :
          Len(arrivals) < MaxStaleMsgs /\ OnMessage("d1", "4.182", raw)
    \/ OnMessageCallback("d1")
    \/ Pipeline
    \/ \E t \in 1..Len(tasks) : HandleDeviceLoaded(t)
    \/ \E t \in 1..Len(tasks) : HandleHistoryQueued(t, TRUE)

SpecStale == InitCooldown /\ [][NextStale]_vars

\* C34: on every step on which the alarm rules are evaluated for the reading
\* of an update, the live reading the registry holds for that sensor is that
\* reading.
C34_EvaluatesLiveReading ==
    [][\A t \in 1..Len(tasks) :
          (tasks[t].pc = "alarms" /\ tasks'[t].pc # "alarms")
             => /\ tasks[t].dev \in DOMAIN devices
                /\ tasks[t].sensor \in DOMAIN devices[tasks[t].dev].sensors
                /\ devices[tasks[t].dev].sensors[tasks[t].sensor].value = tasks[t].val]_vars

(***************************************************************************)
(* SpecGate: devices d1 and d2 with their links up; d1 has the rule on its *)
(* pH sensor, with a webhook.  A pH message of d1 arrives, then a message  *)
(* of d1 or d2; a webhook POST gets its response at any time or never.     *)
(***************************************************************************)
InitGate ==
    InitWith(Devices, [d \in Devices |-> RunningLink(d)],
             [r \in {1} |-> PhRules({1})[r]], NoSettings)

\* the steps the event loop can run
LoopStep ==
    \/ Pipeline
    \/ \E t \in 1..Len(tasks) : HandleDeviceLoaded(t)
    \/ \E t \in 1..Len(tasks) : HandleGathered(t)

NextGate ==
    \/ \E d \in Devices :
          /\ Len(arrivals) < MaxGateMsgs
          /\ arrivals = <<>> => d = "d1"
          /\ OnMessage(d, "4.182", Num(72, 1))
    \/ \E d \in Devices : OnMessageCallback(d)
    \/ LoopStep
    \/ \E c \in 1..Len(calls) : WebhookResponse(c, "timeout")

SpecGate == InitGate /\ [][NextGate]_vars

\* a webhook POST is waiting for its response
DeliveryPending == \E c \in 1..Len(calls) : calls[c].state = "pending"

\* C35: while a webhook delivery is pending the event loop is not held: the
\* callback at the head of its queue can run, the I/O of every other update
\* can complete, and the links hand over the messages that arrive.
C35_DeliveryDoesNotGate ==
    DeliveryPending
        => /\ ready # <<>> => ENABLED LoopStep
           /\ \A t \in 1..Len(tasks) :
                 (tasks[t].blocked /\ tasks[t].pc # "gather") => ENABLED IOComplete(t)
           /\ \A d \in Devices :
                 mqttPending[d] # <<>> => ENABLED OnMessageCallback(d)

\* with the webhook POST of d1's first reading still pending, a later
\* message of d1 has been applied to the registry and its rules evaluated
C35_Witness ==
    \E c \in 1..Len(calls) :
        /\ calls[c].state = "pending"
        /\ tasks[calls[c].owner].msg = 1
        /\ \E t \in 1..Len(tasks) :
              /\ tasks[t].dev = "d1" /\ tasks[t].msg > 1
              /\ tasks[t].at # NoTime /\ tasks[t].evalAt # NoTime
              /\ devices["d1"].last_seen = tasks[t].at

(***************************************************************************)
(* SpecLabel: device d1 with the two rules on its pH sensor, above 7.0 and *)
(* out of 6.0 .. 7.0.  One message arrives for the sensor: a number, an    *)
(* enumerated code or a string that is no number.                          *)
(***************************************************************************)
LabelRaw == {Num(65, 1), Num(7001, 1), Str("abc")}

NextLabel ==
    \/ \E raw \in LabelRaw :
          Len(arrivals) < MaxLabelMsgs /\ OnMessage("d1", "4.182", raw)
    \/ OnMessageCallback("d1")
    \/ Pipeline
    \/ \E t \in 1..Len(tasks) : HandleDeviceLoaded(t)

SpecLabel == InitWith({"d1"}, OneLink("d1"), PhRules({}), NoSettings) /\ [][NextLabel]_vars

\* C36: every triggered alarm was triggered by a reading whose decoded
\* value is a number: a label, an opaque string or a value that could not
\* be decoded is not compared with thresholds.
C36_OnlyNumbersTrigger ==
    \A e \in trigLog : IsNumeric(tasks[e.t].val)

\* the updates of message m that have replaced the live reading, and those
\* whose alarm rules have been evaluated
AppliedFor(m) == {t \in 1..Len(tasks) : tasks[t].msg = m /\ tasks[t].at # NoTime}

EvaluatedFor(m) == {t \in 1..Len(tasks) : tasks[t].msg = m /\ tasks[t].evalAt # NoTime}

\* C37: every message the link accepted results in one sensor update at
\* most: one replacement of the live reading, one alarm evaluation, one
\* trigger of a rule and one row of the readings table, never two.
C37_OneUpdatePerMessage ==
    /\ \A m \in 1..Len(arrivals) :
          /\ Cardinality(AppliedFor(m)) <= 1
          /\ Cardinality(EvaluatedFor(m)) <= 1
          /\ \A r \in DOMAIN rules :
                Cardinality({e \in trigLog : e.msg = m /\ e.rule = r}) <= 1
    /\ \A d \in DOMAIN devices :
          readings[d] <= Cardinality({m \in 1..Len(arrivals) : arrivals[m].dev = d})

\* C38: for a label of the family's inverse enumeration table that a select
\* write encoded, decoding the code that was handed to publish gives the
\* label again: decode(encode(L)) = L.
C38_DecodeInvertsEncode ==
    (WriteReached /\ reply.publish # <<>>
        /\ reply.value.s \in DOMAIN VALUE_TO_MQTT_AUTOMATIC)
        => handle_sensor_value(WrittenConfig, Str(reply.publish[1])) = reply.value

\* the alarm pass of task t is at its last sink and the removal of the sinks
\* that raised will itself raise: the device's entry is gone (KeyError) or a
\* sink is no longer in the list (ValueError)
PruneRaises(t) ==
    LET task == tasks[t]
        dead == IF task.ws \in SendRaises THEN Append(task.disconnected, task.ws)
                ELSE task.disconnected
    IN  /\ task.i + 1 > Len(SinkList(task))
        /\ dead # <<>>
        /\ \/ task.dev \notin DOMAIN wsConns
           \/ RemoveAll(wsConns[task.dev], dead).raised

\* C39: unsubscribe is safe in every interleaving with broadcast: neither
\* the unregistering of a pruned sink nor the pruning of an unregistered
\* sink raises, and no empty subscriber list stays under a device id.
C39_UnsubscribeSafe ==
    [][/\ \A w \in Sinks : Unsubscribe(w) =>
             /\ ~UnregisterRaises(wsConns, sinks[w].dev, w)
             /\ \A d \in DOMAIN wsConns' : w \notin Range(wsConns'[d])
       /\ \A t \in 1..Len(tasks) : HandleAlarmSent(t) => ~PruneRaises(t)
       /\ \A d \in DOMAIN wsConns' : wsConns'[d] # <<>>]_vars

(***************************************************************************)
(* SpecRemoval: device d1, with one alarm rule its readings meet, is       *)
(* removed while a message of it is on the event loop; WebSocket clients   *)
(* connect before and after the removal.                                   *)
(***************************************************************************)
NextRemoval ==
    \/ Len(arrivals) < MaxRemovalMsgs /\ OnMessage("d1", "4.182", Num(72, 1))
    \/ OnMessageCallback("d1")
    \/ Pipeline
    \/ \E w \in Sinks : Subscribe("d1", w)
    \/ RemoveDeviceBegin("d1")
    \/ ThreadStopSeen("d1")
    \/ RemoveDeviceEnd("d1")
    \/ \E t \in 1..Len(tasks) : HandleSensorUpdateNotified(t)
    \/ \E t \in 1..Len(tasks) : HandleDeviceLoaded(t)
    \/ \E t \in 1..Len(tasks) : HandleAlarmSent(t)
    \/ \E t \in 1..Len(tasks) : HandleHistoryQueued(t, TRUE)

SpecRemoval == InitFanout /\ [][NextRemoval]_vars

\* remove_device(d) has returned
Removed(d) == d \notin DOMAIN devices /\ LoopFree

\* a step on which a send_json of a broadcast pass of device d, of a sensor
\* update or of a triggered alarm, returns
Delivers(d) ==
    \E t \in 1..Len(tasks) :
        /\ tasks[t].dev = d
        /\ tasks[t].ws \notin SendRaises
        /\ HandleSensorUpdateNotified(t) \/ HandleAlarmSent(t)

\* C40: after remove_device has returned, no message of the device, queued
\* or in the middle of its processing, changes the registry, is broadcast to
\* a subscriber or triggers an alarm notification, and no subscriber is
\* registered for the removed device.
C40_RemovedDeviceIsSilent ==
    [][Removed("d1") =>
          /\ devices' = devices
          /\ ~Delivers("d1")
          /\ trigLog' = trigLog /\ calls' = calls /\ posts' = posts
          /\ "d1" \notin DOMAIN wsConns']_vars

====
